---- MODULE Spec2Model ----
(***************************************************************************)
(* A model of src/vbg.py (VBG, Vibe Guardian): the session/context store   *)
(* (SessionManager), the change applicator (CodeApplicator) and the AI     *)
(* engine (AIEngine): the fallback chain and the parallel dispatch.        *)
(*                                                                         *)
(* Time is counted in ticks, TicksPerSecond to the second, so that two     *)
(* instants of one clock second are distinct and have the same             *)
(* second-resolution strftime rendering.  A text is represented by the     *)
(* match counts that estimate_tokens reads from it.  The file system is    *)
(* the session directory, the current-session pointer, the project files   *)
(* and the backup directory, and the configuration file.  A dict is a      *)
(* function whose domain is the keys it has.                               *)
(***************************************************************************)
EXTENDS Integers, Sequences, FiniteSets

VARIABLES
    now,                 \* datetime.now(), in ticks
    current_session_id,  \* SessionManager.current_session_id
    session_metadata,    \* SessionManager.session_metadata
    project_summary,     \* SessionManager.project_summary
    context_history,     \* SessionManager.context_history
    session_files,       \* .vbg_sessions/<id>.json, by id
    pointer_file,        \* .vbg_current_session
    sm_last,             \* the last SessionManager call and what it returned
    files,               \* the project files, by path
    backups,             \* .vbg_backups/<name>, by name
    ac_pc,               \* where apply_change stands
    ac_change,           \* the CodeChange apply_change was called with
    ac_pre,              \* files and backups when apply_change was called
    ac_result,           \* apply_change's return value
    config_file,         \* .vbg_config.json as load_config finds it
    config,              \* AIEngine.config
    config_warned,       \* whether load_config printed its warnings
    available,           \* claude_available, gemini_available, antigravity_available
    stats,               \* SessionStats
    eng_pc,              \* whether VBGCore.__init__ has built the engine
    fb_pc,               \* where fallback_mode stands
    fb_attempt,          \* fallback_mode's attempt parameter
    fb_log,              \* the call_gemini calls of the chain, in order
    fb_result,           \* fallback_mode's return value
    cp_pc,               \* where call_parallel stands
    cp_include,          \* call_parallel's include_antigravity parameter
    tasks,               \* the names of call_parallel's tasks, in submit order
    futures,             \* the future of each task
    cp_next,             \* the position of the collecting loop in tasks
    results,             \* call_parallel's results dict
    cp_timed,            \* the tasks whose future.result timed out
    cp_pre,              \* the statistics when call_parallel was called
    op_pc,               \* where the operation (analyze) stands
    op_parallel,         \* the operation's parallel_mode
    op_success,          \* the operation's success
    op_final,            \* the operation's final_result
    gw,                  \* a _run_command call: command, process outcome, result
    syn,                 \* a synthesize_results call: results dict and report
    px,                  \* a parse_changes_from_response call: disk, response, changes
    run,                 \* where apply_all or apply_with_confirmation stands
    applied_changes,     \* CodeApplicator.applied_changes
    failed_changes,      \* CodeApplicator.failed_changes
    core                 \* VBGCore: where startup or an operation's prompt stands

smVars == <<current_session_id, session_metadata, project_summary,
            context_history, session_files, pointer_file, sm_last>>
caVars == <<files, backups, ac_pc, ac_change, ac_pre, ac_result>>
engVars == <<config_file, config, config_warned, available, eng_pc>>
fbVars == <<fb_pc, fb_attempt, fb_log, fb_result>>
cpVars == <<cp_pc, cp_include, tasks, futures, cp_next, results, cp_timed,
            cp_pre>>
opVars == <<op_pc, op_parallel, op_success, op_final>>
aiVars == <<config_file, config, config_warned, available, stats, eng_pc,
            fb_pc, fb_attempt, fb_log, fb_result,
            cp_pc, cp_include, tasks, futures, cp_next, results, cp_timed,
            cp_pre, op_pc, op_parallel, op_success, op_final>>
runVars == <<run, applied_changes, failed_changes>>
restVars == <<gw, syn, px, run, applied_changes, failed_changes, core>>
vars == <<now, current_session_id, session_metadata, project_summary,
          context_history, session_files, pointer_file, sm_last,
          files, backups, ac_pc, ac_change, ac_pre, ac_result,
          config_file, config, config_warned, available, stats, eng_pc,
          fb_pc, fb_attempt, fb_log, fb_result,
          cp_pc, cp_include, tasks, futures, cp_next, results, cp_timed,
          cp_pre, op_pc, op_parallel, op_success, op_final,
          gw, syn, px, run, applied_changes, failed_changes, core>>

----------------------------------------------------------------------------
(* Program constants *)

MAX_CONTEXT_HISTORY == 10
MAX_CONTEXT_TOKENS == 4000
SESSION_EXPIRY_HOURS == 24

(* Bounds of the model *)

TicksPerSecond == 2
MaxCommands == 11      \* add_context calls per session, window specification
MaxTurns == 2          \* add_context calls per session, session specification
MaxTicks == 1          \* single ticks of the clock, session specification
MaxApplyTicks == 2     \* single ticks of the clock, applicator specification
MaxCeiling == 6        \* the largest max_self_heal_attempts a file sets
MaxSegments == 2       \* segments of an AI answer, extraction specification
MaxStartupTicks == 4   \* single ticks of the clock, startup specification

SecondsPerHour == 3600
ExpiryTicks == SESSION_EXPIRY_HOURS * SecondsPerHour * TicksPerSecond

----------------------------------------------------------------------------
(* Token estimator *)

Text(w, c, s, ws, o) ==
    [words |-> w, cjk |-> c, special |-> s, spaces |-> ws, other |-> o]

IsEmptyText(t) ==
    t.words = 0 /\ t.cjk = 0 /\ t.special = 0 /\ t.spaces = 0 /\ t.other = 0

Max(a, b) == IF a >= b THEN a ELSE b

\* int(words * 1.3 + cjk * 0.5 + special * 0.5 + spaces * 0.1), at least 1,
\* and 0 for the empty text; the weights are taken in tenths.
estimate_tokens(t) ==
    IF IsEmptyText(t) THEN 0
    ELSE Max(1, (13 * t.words + 5 * t.cjk + 5 * t.special + t.spaces) \div 10)

SmallText == Text(1, 0, 0, 0, 0)
BigText == Text(1539, 0, 0, 0, 0)
HugeText == Text(3078, 0, 0, 0, 0)

----------------------------------------------------------------------------
(* Session store: values *)

NoId == -1
NoTime == -1
NoCount == -1

\* datetime.now().strftime("%Y%m%d_%H%M%S"): the instant cut to its second
SessionIdOf(t) == t \div TicksPerSecond

\* A dict without the keys create_session writes
EmptyMetadata ==
    [id |-> NoId, created_at |-> NoTime, updated_at |-> NoTime,
     project_type |-> "", project_dir |-> "", total_commands |-> NoCount]

ContextEntry(role, content, timestamp, command, tokens) ==
    [role |-> role, content |-> content, timestamp |-> timestamp,
     command |-> command, tokens |-> tokens]

\* As EntryToDict, the token estimate not written
EntryToDict_TokensLost(e) ==
    [role |-> e.role, content |-> e.content, timestamp |-> e.timestamp,
     command |-> e.command, tokens |-> 0]

\* The dict _save_session writes for one entry
EntryToDict(e) ==
    [role |-> e.role, content |-> e.content, timestamp |-> e.timestamp,
     command |-> e.command, tokens |-> e.tokens]

\* ContextEntry(**entry)
DictToEntry(d) ==
    ContextEntry(d.role, d.content, d.timestamp, d.command, d.tokens)

\* The list comprehension of _save_session
EntriesToDicts(h) == [i \in 1..Len(h) |-> EntryToDict(h[i])]

\* The list comprehension of load_session
DictsToEntries(ds) == [i \in 1..Len(ds) |-> DictToEntry(ds[i])]

\* A file json.load cannot parse
CorruptFile == [valid |-> FALSE]

RECURSIVE SumTokens(_)
SumTokens(h) == IF h = <<>> THEN 0 ELSE Head(h).tokens + SumTokens(Tail(h))

----------------------------------------------------------------------------
(* Session store: operations *)

\* _save_session: the session directory after the call.  The write is taken
\* to go through; one that raises is swallowed by the except branch and leaves
\* a file cut short, which is what DamageSessionFile leaves.
SaveSession(id, meta, summary, history, dir) ==
    IF id = NoId THEN dir
    ELSE [x \in DOMAIN dir \cup {id} |->
            IF x = id
            THEN [valid |-> TRUE, metadata |-> meta, project_summary |-> summary,
                  context_history |-> EntriesToDicts(history)]
            ELSE dir[x]]

\* As SaveCurrentSessionId, the pointer left as it is
SaveCurrentSessionId_Skipped(id) == pointer_file

\* _save_current_session_id: what the pointer file holds after the call (the
\* write taken to go through)
SaveCurrentSessionId(id) == id

\* As EvictByCount, the bound off by one
RECURSIVE EvictByCount_OffByOne(_)
EvictByCount_OffByOne(h) ==
    IF Len(h) > MAX_CONTEXT_HISTORY + 1 THEN EvictByCount_OffByOne(Tail(h)) ELSE h

\* while len(history) > MAX_CONTEXT_HISTORY: pop(0)
RECURSIVE EvictByCount(_)
EvictByCount(h) ==
    IF Len(h) > MAX_CONTEXT_HISTORY THEN EvictByCount(Tail(h)) ELSE h

\* As EvictByTokens, with pop() for pop(0)
RECURSIVE EvictByTokens_FromTail(_, _)
EvictByTokens_FromTail(h, total) ==
    IF total > MAX_CONTEXT_TOKENS /\ Len(h) > 1
    THEN EvictByTokens_FromTail(SubSeq(h, 1, Len(h) - 1), total - h[Len(h)].tokens)
    ELSE h

\* while total > MAX_CONTEXT_TOKENS and len(history) > 1: total -= pop(0).tokens
RECURSIVE EvictByTokens(_, _)
EvictByTokens(h, total) ==
    IF total > MAX_CONTEXT_TOKENS /\ Len(h) > 1
    THEN EvictByTokens(Tail(h), total - Head(h).tokens)
    ELSE h

\* As Window, the entry put in front
Window_Prepend(h, entry) == <<entry>> \o h

\* The history add_context leaves
Window(h, entry) ==
    LET appended == Append(h, entry)
        counted == EvictByCount(appended)
    IN EvictByTokens(counted, SumTokens(counted))

total_commands_of(meta) ==
    IF meta.total_commands = NoCount THEN 0 ELSE meta.total_commands

CreateSession(project_type) ==
    LET session_id == SessionIdOf(now)
        meta == [id |-> session_id, created_at |-> now, updated_at |-> now,
                 project_type |-> project_type, project_dir |-> "cwd",
                 total_commands |-> 0]
    IN /\ current_session_id' = session_id
       /\ context_history' = <<>>
       /\ session_metadata' = meta
       /\ pointer_file' = SaveCurrentSessionId(session_id)
       /\ session_files' =
            SaveSession(session_id, meta, project_summary, <<>>, session_files)
       /\ sm_last' = [op |-> "create", id |-> session_id, ok |-> TRUE,
                      after |-> sm_last.op, tag |-> project_type]
       /\ UNCHANGED <<now, project_summary>>
       /\ UNCHANGED caVars
       /\ UNCHANGED aiVars
       /\ UNCHANGED restVars

AddContext(role, content, command) ==
    LET entry == ContextEntry(role, content, now, command, estimate_tokens(content))
        history == Window(context_history, entry)
        meta == [session_metadata EXCEPT
                    !.updated_at = now,
                    !.total_commands = total_commands_of(session_metadata) + 1]
    IN /\ context_history' = history
       /\ session_metadata' = meta
       /\ session_files' =
            SaveSession(current_session_id, meta, project_summary, history,
                        session_files)
       /\ sm_last' = [op |-> "add", id |-> current_session_id, ok |-> TRUE,
                      after |-> sm_last.op, tag |-> ""]
       /\ UNCHANGED <<now, current_session_id, project_summary, pointer_file>>
       /\ UNCHANGED caVars
       /\ UNCHANGED aiVars
       /\ UNCHANGED restVars

\* now - created_at exceeds SESSION_EXPIRY_HOURS
Expired(created_at, t) == t - created_at > ExpiryTicks

\* As created_at_of, the age taken from the last update
created_at_of_Updated(meta) ==
    IF meta.updated_at = NoTime THEN now ELSE meta.updated_at

\* session_metadata.get("created_at", datetime.now().isoformat())
created_at_of(meta) ==
    IF meta.created_at = NoTime THEN now ELSE meta.created_at

LoadSession(session_id) ==
    LET returns(ok) ==
            sm_last' = [op |-> "load", id |-> session_id, ok |-> ok,
                        after |-> sm_last.op, tag |-> ""]
    IN /\ UNCHANGED <<now, session_files, pointer_file>>
       /\ UNCHANGED caVars
       /\ UNCHANGED aiVars
       /\ UNCHANGED restVars
       /\ IF session_id \notin DOMAIN session_files
          THEN /\ returns(FALSE)
               /\ UNCHANGED <<current_session_id, session_metadata,
                              project_summary, context_history>>
          ELSE LET data == session_files[session_id]
               IN IF ~data.valid
                  THEN /\ returns(FALSE)
                       /\ UNCHANGED <<current_session_id, session_metadata,
                                      project_summary, context_history>>
                  ELSE /\ current_session_id' = session_id
                       /\ session_metadata' = data.metadata
                       /\ project_summary' = data.project_summary
                       /\ context_history' =
                            DictsToEntries(data.context_history)
                       /\ returns(~Expired(created_at_of(data.metadata), now))

SetProjectSummary(summary) ==
    /\ project_summary' = summary
    /\ session_files' =
         SaveSession(current_session_id, session_metadata, summary,
                     context_history, session_files)
    /\ sm_last' = [op |-> "summary", id |-> current_session_id, ok |-> TRUE,
                   after |-> sm_last.op, tag |-> ""]
    /\ UNCHANGED <<now, current_session_id, session_metadata, context_history,
                   pointer_file>>
    /\ UNCHANGED caVars
    /\ UNCHANGED aiVars
    /\ UNCHANGED restVars

\* A session file is cut short or overwritten from outside: what the
\* except branch of load_session is there for
DamageSessionFile(session_id) ==
    /\ session_id \in DOMAIN session_files
    /\ session_files[session_id].valid
    /\ session_files' = [session_files EXCEPT ![session_id] = CorruptFile]
    /\ sm_last' = [op |-> "damage", id |-> session_id, ok |-> TRUE,
                   after |-> sm_last.op, tag |-> ""]
    /\ UNCHANGED <<now, current_session_id, session_metadata, project_summary,
                   context_history, pointer_file>>
    /\ UNCHANGED caVars
    /\ UNCHANGED aiVars
    /\ UNCHANGED restVars

\* The clock moves on by one tick, or by the expiry period
TickSmall ==
    /\ now' = now + 1
    /\ UNCHANGED smVars
    /\ UNCHANGED caVars
    /\ UNCHANGED aiVars
    /\ UNCHANGED restVars

TickDay ==
    /\ now < ExpiryTicks
    /\ now' = now + ExpiryTicks
    /\ UNCHANGED smVars
    /\ UNCHANGED caVars
    /\ UNCHANGED aiVars
    /\ UNCHANGED restVars

----------------------------------------------------------------------------
(* Change applicator: values *)

NoFile == "<absent>"

Path(dir, stem, suffix) == [dir |-> dir, stem |-> stem, suffix |-> suffix]

PathAX == Path("a", "x", ".py")
PathBX == Path("b", "x", ".py")
PathY == Path("", "y", ".md")
Paths == {PathAX, PathBX, PathY}

CodeChange(file_path, change_type, new_code) ==
    [file_path |-> file_path, change_type |-> change_type, new_code |-> new_code]

Changes ==
    { CodeChange(p, k, "v2") : p \in Paths, k \in {"modify", "create"} }
    \cup { CodeChange(p, "delete", "") : p \in Paths }

Exists(fs, p) == fs[p] # NoFile

\* datetime.now().strftime("%Y%m%d_%H%M%S")
TimestampOf(t) == t \div TicksPerSecond

\* f"{source.stem}_{timestamp}{source.suffix}" in the backup directory
BackupName(p, t) ==
    [stem |-> p.stem, timestamp |-> TimestampOf(t), suffix |-> p.suffix]

\* The messages apply_change returns (lines 431 to 458), in English
MsgMissing == "file does not exist"
MsgExists == "file already exists"
MsgDeleted == "file deleted"
MsgCreated == "file created"
MsgModified == "modified"
MsgError == "exception"

----------------------------------------------------------------------------
(* Change applicator: operations *)

\* As PreconditionHolds, create not looking at the path
PreconditionHolds_CreateUnchecked(change, fs) ==
    change.change_type = "create" \/ Exists(fs, change.file_path)

\* The existence test each branch of apply_change starts with
PreconditionHolds(change, fs) ==
    IF change.change_type = "create"
    THEN ~Exists(fs, change.file_path)
    ELSE Exists(fs, change.file_path)

\* What apply_change returns when the test fails
PreconditionReason(change) ==
    IF change.change_type = "create" THEN MsgExists ELSE MsgMissing

\* apply_change is called: the branch on change_type and the existence test
ApplyChangeCall(change) ==
    /\ ac_pc \in {"idle", "done"}
    /\ ac_change' = change
    /\ ac_pre' = [files |-> files, backups |-> backups]
    /\ IF ~PreconditionHolds(change, files)
       THEN /\ ac_pc' = "done"
            /\ ac_result' = <<FALSE, PreconditionReason(change)>>
       ELSE /\ ac_pc' = IF change.change_type = "create" THEN "write" ELSE "backup"
            /\ ac_result' = ac_result
    /\ UNCHANGED <<now, files, backups>>
    /\ UNCHANGED smVars
    /\ UNCHANGED aiVars
    /\ UNCHANGED restVars

\* The backup directory after create_backup; copied says whether
\* shutil.copy2 went through
BackupsAfter(p, copied) ==
    IF Exists(files, p) /\ copied
    THEN [b \in DOMAIN backups \cup {BackupName(p, now)} |->
            IF b = BackupName(p, now) THEN files[p] ELSE backups[b]]
    ELSE backups

\* create_backup, called by the delete and the modify branch; its result
\* does not decide what apply_change does next
CreateBackup(copied) ==
    /\ ac_pc = "backup"
    /\ backups' = BackupsAfter(ac_change.file_path, copied)
    /\ ac_pc' = "write"
    /\ UNCHANGED <<now, files, ac_change, ac_pre, ac_result>>
    /\ UNCHANGED smVars
    /\ UNCHANGED aiVars
    /\ UNCHANGED restVars

\* The success message of each branch
DoneMessage(change) ==
    CASE change.change_type = "delete" -> MsgDeleted
      [] change.change_type = "create" -> MsgCreated
      [] OTHER -> MsgModified

\* file_path.unlink(), or open(file_path, 'w') and f.write(new_code).
\* outcome: "ok"; "refused" (unlink, mkdir or open raises, the file is as
\* it was); "cut" (open truncated the file and the write raised)
WriteTarget(outcome) ==
    /\ ac_pc = "write"
    /\ LET p == ac_change.file_path
       IN CASE outcome = "ok" ->
                 /\ files' = [files EXCEPT ![p] =
                        IF ac_change.change_type = "delete" THEN NoFile
                        ELSE ac_change.new_code]
                 /\ ac_result' = <<TRUE, DoneMessage(ac_change)>>
            [] outcome = "refused" ->
                 /\ files' = files
                 /\ ac_result' = <<FALSE, MsgError>>
            [] OTHER ->
                 /\ ac_change.change_type # "delete"
                 /\ files' = [files EXCEPT ![p] = ""]
                 /\ ac_result' = <<FALSE, MsgError>>
    /\ ac_pc' = "done"
    /\ UNCHANGED <<now, backups, ac_change, ac_pre>>
    /\ UNCHANGED smVars
    /\ UNCHANGED aiVars
    /\ UNCHANGED restVars

----------------------------------------------------------------------------
(* Configuration *)

Providers == {"claude", "gemini", "antigravity"}

EmptyDict == [k \in {} |-> TRUE]

\* dict.get(key, default)
Get(d, key, default) == IF key \in DOMAIN d THEN d[key] ELSE default

DefaultMaxSelfHealAttempts == 3

\* get_default_config: the enabled flag of each provider, the fallback
\* section and the execution section, which are what this model reads
get_default_config ==
    [enabled |-> [p \in Providers |-> TRUE],
     fallback |-> [k \in {"max_self_heal_attempts"} |->
                     DefaultMaxSelfHealAttempts],
     execution |-> [k \in {"parallel", "include_antigravity_in_parallel"} |->
                      k = "parallel"]]

\* merge_dict: the keys of the override replace or join those of the base
merge_dict(base, override) ==
    [k \in DOMAIN base \cup DOMAIN override |->
        IF k \in DOMAIN override THEN override[k] ELSE base[k]]

\* The configuration file: missing, not JSON, or a dict
MissingFile ==
    [state |-> "missing", enabled |-> EmptyDict, fallback |-> EmptyDict,
     execution |-> EmptyDict]
UnparseableFile ==
    [state |-> "unparseable", enabled |-> EmptyDict, fallback |-> EmptyDict,
     execution |-> EmptyDict]
ParsedFile(enabled, fallback, execution) ==
    [state |-> "parsed", enabled |-> enabled, fallback |-> fallback,
     execution |-> execution]

\* validate_config, the fallback section: is_valid
validate_config(cfg) ==
    LET max_attempts ==
            Get(cfg.fallback, "max_self_heal_attempts", DefaultMaxSelfHealAttempts)
    IN max_attempts >= 1 /\ max_attempts <= 5

\* load_config: the merged configuration is returned whether or not it is
\* valid; validation only prints warnings
load_config(file) ==
    IF file.state = "parsed"
    THEN [enabled |-> merge_dict(get_default_config.enabled, file.enabled),
          fallback |-> merge_dict(get_default_config.fallback, file.fallback),
          execution |-> merge_dict(get_default_config.execution, file.execution)]
    ELSE get_default_config

\* Whether load_config printed the configuration warnings
load_config_warns(file) ==
    file.state = "parsed" /\ ~validate_config(load_config(file))

ZeroStats ==
    [claude_calls |-> 0, gemini_calls |-> 0, antigravity_calls |-> 0,
     total_tokens_used |-> 0]

\* VBGCore.__init__: load_config, SessionStats(), AIEngine(config, stats),
\* which probes each command with shutil.which
Construct(file, avail) ==
    /\ eng_pc = "unbuilt"
    /\ config_file' = file
    /\ config' = load_config(file)
    /\ config_warned' = load_config_warns(file)
    /\ available' = avail
    /\ stats' = ZeroStats
    /\ eng_pc' = "ready"
    /\ UNCHANGED fbVars
    /\ UNCHANGED cpVars
    /\ UNCHANGED opVars
    /\ UNCHANGED now
    /\ UNCHANGED smVars
    /\ UNCHANGED caVars
    /\ UNCHANGED restVars

----------------------------------------------------------------------------
(* Provider gateway *)

PromptText == SmallText
AnswerText == Text(3, 0, 1, 2, 0)

MsgTimedOut == "Command timed out"
MsgGeminiMissing == "Gemini CLI not available"
MsgExceeded == "Maximum self-heal attempts exceeded"

\* What _run_command returns: (returncode == 0, stdout + stderr), or False
\* with the text of the timeout or of the exception
RunOutcomes ==
    { <<TRUE, "answer">>, <<FALSE, "error output">>,
      <<FALSE, MsgTimedOut>>, <<FALSE, "exception">> }

\* The text of an output, as estimate_tokens reads it
TextOf(output) == IF output = "answer" THEN AnswerText ELSE SmallText

\* The statistics after a successful call of claude or gemini
CountCall(st, name) ==
    LET tokens == estimate_tokens(PromptText) + estimate_tokens(TextOf("answer"))
    IN CASE name = "claude" ->
              [st EXCEPT !.claude_calls = @ + 1, !.total_tokens_used = @ + tokens]
         [] name = "gemini" ->
              [st EXCEPT !.gemini_calls = @ + 1, !.total_tokens_used = @ + tokens]
         [] OTHER ->
              [st EXCEPT !.antigravity_calls = @ + 1]

\* What the external process does: it exits with a return code after
\* writing stdout and stderr (texts, as sequences of chunks), it outlives the
\* timeout, or subprocess.run raises (the command cannot be started, the
\* output cannot be decoded)
Exit(returncode, stdout, stderr) ==
    [kind |-> "exit", returncode |-> returncode, stdout |-> stdout,
     stderr |-> stderr, message |-> <<>>]
TimeoutExpired ==
    [kind |-> "timeout", returncode |-> 0, stdout |-> <<>>, stderr |-> <<>>,
     message |-> <<>>]
Raises(message) ==
    [kind |-> "exception", returncode |-> 0, stdout |-> <<>>, stderr |-> <<>>,
     message |-> message]

\* As Succeeded, a process ended by a signal taken for a success
Succeeded_NotPositive(returncode) == returncode <= 0

\* result.returncode == 0
Succeeded(returncode) == returncode = 0

\* As Combined, stderr first
Combined_StderrFirst(stdout, stderr) == stderr \o stdout

\* result.stdout + result.stderr
Combined(stdout, stderr) == stdout \o stderr

Returns(value) == [raised |-> FALSE, value |-> value]

\* _run_command: every branch returns a pair
run_command(proc) ==
    CASE proc.kind = "exit" ->
            Returns(<<Succeeded(proc.returncode), Combined(proc.stdout, proc.stderr)>>)
      [] proc.kind = "timeout" -> Returns(<<FALSE, <<MsgTimedOut>> >>)
      [] OTHER -> Returns(<<FALSE, proc.message>>)

NoCall == [command |-> "", proc |-> TimeoutExpired,
           result |-> Returns(<<FALSE, <<>> >>)]

\* _run_command(command) is called and the process does proc
RunCommand(command, proc) ==
    /\ gw' = [command |-> command, proc |-> proc, result |-> run_command(proc)]
    /\ UNCHANGED <<syn, px, run, applied_changes, failed_changes, core>>
    /\ UNCHANGED now
    /\ UNCHANGED smVars
    /\ UNCHANGED caVars
    /\ UNCHANGED aiVars

----------------------------------------------------------------------------
(* Fallback chain *)

\* self.config.get("fallback", {}).get("max_self_heal_attempts", 3)
max_attempts_of(cfg) == Get(cfg.fallback, "max_self_heal_attempts", 3)

\* As CeilingReached, the ceiling never looked at
CeilingReached_Never(attempt, max_attempts) == FALSE

\* if attempt > max_attempts
CeilingReached(attempt, max_attempts) == attempt > max_attempts

\* As ShouldRetry, a success not ending the chain
ShouldRetry_IgnoresSuccess(success, attempt, max_attempts) ==
    attempt < max_attempts

\* if not success and attempt < max_attempts
ShouldRetry(success, attempt, max_attempts) ==
    ~success /\ attempt < max_attempts

\* As NextAttempt, the attempt not counted
NextAttempt_NotCounted(attempt) == attempt

\* attempt + 1 of the recursive call
NextAttempt(attempt) == attempt + 1

\* fallback_mode(prompt) is called by an operation
FallbackMode ==
    /\ eng_pc = "ready"
    /\ fb_pc = "idle"
    /\ fb_pc' = "entry"
    /\ fb_attempt' = 1
    /\ fb_log' = <<>>
    /\ UNCHANGED <<fb_result, stats>>
    /\ UNCHANGED engVars
    /\ UNCHANGED cpVars
    /\ UNCHANGED opVars
    /\ UNCHANGED now
    /\ UNCHANGED smVars
    /\ UNCHANGED caVars
    /\ UNCHANGED restVars

\* The head of fallback_mode: the ceiling is read and tested
FallbackEntry ==
    /\ fb_pc = "entry"
    /\ IF CeilingReached(fb_attempt, max_attempts_of(config))
       THEN /\ fb_result' = <<FALSE, MsgExceeded>>
            /\ fb_pc' = "done"
       ELSE /\ fb_result' = fb_result
            /\ fb_pc' = "calling"
    /\ UNCHANGED <<fb_attempt, fb_log, stats>>
    /\ UNCHANGED engVars
    /\ UNCHANGED cpVars
    /\ UNCHANGED opVars
    /\ UNCHANGED now
    /\ UNCHANGED smVars
    /\ UNCHANGED caVars
    /\ UNCHANGED restVars

\* call_gemini and what fallback_mode does with its result.  outcome is what
\* _run_command returns; without the gemini command no process is started.
FallbackCallGemini(outcome) ==
    /\ fb_pc = "calling"
    /\ LET launched == available["gemini"]
           value == IF launched THEN outcome ELSE <<FALSE, MsgGeminiMissing>>
           success == value[1]
       IN /\ fb_log' = Append(fb_log, [attempt |-> fb_attempt, ok |-> success,
                                       output |-> value[2], launched |-> launched])
          /\ stats' = IF success THEN CountCall(stats, "gemini") ELSE stats
          /\ IF ShouldRetry(success, fb_attempt, max_attempts_of(config))
             THEN /\ fb_attempt' = NextAttempt(fb_attempt)
                  /\ fb_pc' = "entry"
                  /\ fb_result' = fb_result
             ELSE /\ fb_attempt' = fb_attempt
                  /\ fb_pc' = "done"
                  /\ fb_result' = value
    /\ UNCHANGED engVars
    /\ UNCHANGED cpVars
    /\ UNCHANGED opVars
    /\ UNCHANGED now
    /\ UNCHANGED smVars
    /\ UNCHANGED caVars
    /\ UNCHANGED restVars

----------------------------------------------------------------------------
(* Parallel dispatch *)

\* The order in which call_parallel submits, which is the order of tasks.items()
TaskOrder == <<"claude", "gemini", "antigravity">>

\* f"{name} timed out"
MsgFutureTimedOut(name) ==
    CASE name = "claude" -> "claude timed out"
      [] name = "gemini" -> "gemini timed out"
      [] OTHER -> "antigravity timed out"

\* As Scheduled, the command not probed
Scheduled_Unprobed(cfg, avail, include_antigravity, name) ==
    IF name = "antigravity"
    THEN include_antigravity /\ Get(cfg.enabled, name, FALSE)
    ELSE Get(cfg.enabled, name, TRUE)

\* The three tests before executor.submit: the command is there and the
\* provider's enabled flag is set, a flag that is absent counting as set for
\* claude and gemini and as unset for antigravity
Scheduled(cfg, avail, include_antigravity, name) ==
    IF name = "antigravity"
    THEN include_antigravity /\ avail[name] /\ Get(cfg.enabled, name, FALSE)
    ELSE avail[name] /\ Get(cfg.enabled, name, TRUE)

Running == [state |-> "running", value |-> <<FALSE, "">>]
Returned(value) == [state |-> "returned", value |-> value]

NoResults == [k \in {} |-> <<FALSE, "">>]

\* As Record, a failure written over the entries already there
Record_Clobbering(res, name, value) ==
    [k \in DOMAIN res \cup {name} |->
        IF k = name \/ ~value[1] THEN value ELSE res[k]]

\* results[name] = value
Record(res, name, value) ==
    [k \in DOMAIN res \cup {name} |-> IF k = name THEN value ELSE res[k]]

\* As WorkerStats, the task run through call_claude or call_gemini, which
\* count their own successes
WorkerStats_Counting(st, name, value) ==
    IF value[1] THEN CountCall(st, name) ELSE st

\* The statistics after a task ran _call_claude_internal,
\* _call_gemini_internal or _call_antigravity_internal
WorkerStats(st, name, value) == st

\* As NextTask, an item of tasks.items() passed over
NextTask_Skipping(i) == i + 2

\* The for loop moves to the next item of tasks.items()
NextTask(i) == i + 1

\* Where call_parallel stands once the loop is at position i
AfterCollect(i, ts) == IF i > Len(ts) THEN "shutdown" ELSE "collect"

\* The state call_parallel leaves at its call: the tasks submitted, nothing
\* collected
StartDispatch(include_antigravity) ==
    LET eligible(name) == Scheduled(config, available, include_antigravity, name)
        submitted == SelectSeq(TaskOrder, eligible)
    IN /\ cp_include' = include_antigravity
       /\ tasks' = submitted
       /\ futures' = [name \in {submitted[i] : i \in 1..Len(submitted)} |-> Running]
       /\ results' = NoResults
       /\ cp_timed' = {}
       /\ cp_next' = 1
       /\ cp_pre' = stats
       /\ cp_pc' = AfterCollect(1, submitted)

\* call_parallel(prompt, include_antigravity=...) is called
CallParallel(include_antigravity) ==
    /\ eng_pc = "ready"
    /\ cp_pc = "idle"
    /\ StartDispatch(include_antigravity)
    /\ UNCHANGED stats
    /\ UNCHANGED engVars
    /\ UNCHANGED fbVars
    /\ UNCHANGED opVars
    /\ UNCHANGED now
    /\ UNCHANGED smVars
    /\ UNCHANGED caVars
    /\ UNCHANGED restVars

\* A worker thread: the task's _run_command returns outcome
WorkerReturns(name, outcome) ==
    /\ cp_pc \in {"collect", "shutdown"}
    /\ name \in DOMAIN futures
    /\ futures[name].state = "running"
    /\ futures' = [futures EXCEPT ![name] = Returned(outcome)]
    /\ stats' = WorkerStats(stats, name, outcome)
    /\ UNCHANGED <<cp_pc, cp_include, tasks, cp_next, results, cp_timed, cp_pre>>
    /\ UNCHANGED engVars
    /\ UNCHANGED fbVars
    /\ UNCHANGED opVars
    /\ UNCHANGED now
    /\ UNCHANGED smVars
    /\ UNCHANGED caVars
    /\ UNCHANGED restVars

\* The collecting loop: future.result returns the task's pair, which is
\* recorded and, when a success, counted
CollectResult ==
    /\ cp_pc = "collect"
    /\ LET name == tasks[cp_next]
           value == futures[name].value
       IN /\ futures[name].state = "returned"
          /\ results' = Record(results, name, value)
          /\ stats' = IF value[1] THEN CountCall(stats, name) ELSE stats
    /\ cp_next' = NextTask(cp_next)
    /\ cp_pc' = AfterCollect(NextTask(cp_next), tasks)
    /\ UNCHANGED <<cp_include, tasks, futures, cp_timed, cp_pre>>
    /\ UNCHANGED engVars
    /\ UNCHANGED fbVars
    /\ UNCHANGED opVars
    /\ UNCHANGED now
    /\ UNCHANGED smVars
    /\ UNCHANGED caVars
    /\ UNCHANGED restVars

\* The collecting loop: future.result raises FuturesTimeoutError while the
\* task is still running
CollectTimeout ==
    /\ cp_pc = "collect"
    /\ LET name == tasks[cp_next]
       IN /\ futures[name].state = "running"
          /\ results' = Record(results, name, <<FALSE, MsgFutureTimedOut(name)>>)
          /\ cp_timed' = cp_timed \cup {name}
    /\ cp_next' = NextTask(cp_next)
    /\ cp_pc' = AfterCollect(NextTask(cp_next), tasks)
    /\ UNCHANGED <<cp_include, tasks, futures, cp_pre, stats>>
    /\ UNCHANGED engVars
    /\ UNCHANGED fbVars
    /\ UNCHANGED opVars
    /\ UNCHANGED now
    /\ UNCHANGED smVars
    /\ UNCHANGED caVars
    /\ UNCHANGED restVars

\* The with block ends: the executor waits for every task, then
\* call_parallel returns results
ReturnResults ==
    /\ cp_pc = "shutdown"
    /\ \A name \in DOMAIN futures : futures[name].state = "returned"
    /\ cp_pc' = "returned"
    /\ UNCHANGED <<cp_include, tasks, futures, cp_next, results, cp_timed,
                   cp_pre, stats>>
    /\ UNCHANGED engVars
    /\ UNCHANGED fbVars
    /\ UNCHANGED opVars
    /\ UNCHANGED now
    /\ UNCHANGED smVars
    /\ UNCHANGED caVars
    /\ UNCHANGED restVars

----------------------------------------------------------------------------
(* Operation: analyze *)

MsgClaudeMissing == "Claude CLI not available"

\* A final_result: the outputs it is made of, by provider, in order
Final(kind, parts) == [kind |-> kind, parts |-> parts]
NoFinal == Final("none", <<>>)

\* As synthesize_results, the failed entries taken along
synthesize_results_AllEntries(res, order) ==
    LET present(name) == name \in DOMAIN res
        names == SelectSeq(order, present)
        parts == [i \in 1..Len(names) |-> <<names[i], res[names[i]][2]>>]
    IN CASE Len(names) = 0 -> Final("failed", <<>>)
         [] Len(names) = 1 -> Final("single", parts)
         [] OTHER -> Final("synthesis", parts)

\* synthesize_results: the failure message when no provider succeeded, the
\* one output when one did, the labelled outputs in the order of the dict
\* when several did
synthesize_results(res, order) ==
    LET succeeded(name) == name \in DOMAIN res /\ res[name][1]
        names == SelectSeq(order, succeeded)
        parts == [i \in 1..Len(names) |-> <<names[i], res[names[i]][2]>>]
    IN CASE Len(names) = 0 -> Final("failed", <<>>)
         [] Len(names) = 1 -> Final("single", parts)
         [] OTHER -> Final("synthesis", parts)

SynthesisText == Text(12, 0, 6, 8, 0)

\* The text of a final_result, as estimate_tokens reads it
FinalText(final) ==
    IF final.kind = "single" THEN TextOf(final.parts[1][2]) ELSE SynthesisText

\* any(r[0] for r in results.values())
AnySuccess(res) == \E name \in DOMAIN res : res[name][1]

\* self.config.get("execution", {}).get("parallel", True)
is_parallel_enabled(cfg) == Get(cfg.execution, "parallel", TRUE)

\* analyze(question) up to its dispatch: in parallel mode call_parallel is
\* called with include_antigravity at its default
Analyze ==
    /\ eng_pc = "ready"
    /\ current_session_id # NoId
    /\ op_pc = "idle"
    /\ op_parallel' = is_parallel_enabled(config)
    /\ IF is_parallel_enabled(config)
       THEN /\ cp_pc = "idle"
            /\ StartDispatch(FALSE)
            /\ op_pc' = "dispatch"
       ELSE /\ UNCHANGED cpVars
            /\ op_pc' = "claude"
    /\ UNCHANGED <<op_success, op_final, stats>>
    /\ UNCHANGED engVars
    /\ UNCHANGED fbVars
    /\ UNCHANGED now
    /\ UNCHANGED smVars
    /\ UNCHANGED caVars
    /\ UNCHANGED restVars

\* Parallel mode, after call_parallel returned: the results are synthesized
\* and success is whether any provider succeeded; nothing else is tried
AnalyzeAfterDispatch ==
    /\ op_pc = "dispatch"
    /\ cp_pc = "returned"
    /\ op_final' = synthesize_results(results, tasks)
    /\ op_success' = AnySuccess(results)
    /\ op_pc' = "finish"
    /\ UNCHANGED <<op_parallel, stats>>
    /\ UNCHANGED engVars
    /\ UNCHANGED fbVars
    /\ UNCHANGED cpVars
    /\ UNCHANGED now
    /\ UNCHANGED smVars
    /\ UNCHANGED caVars
    /\ UNCHANGED restVars

\* Sequential mode: call_claude, and fallback_mode is entered when it failed.
\* outcome is what _run_command returns; without the claude command no
\* process is started.
AnalyzeCallClaude(outcome) ==
    /\ op_pc = "claude"
    /\ LET value == IF available["claude"] THEN outcome
                    ELSE <<FALSE, MsgClaudeMissing>>
       IN IF value[1]
          THEN /\ stats' = CountCall(stats, "claude")
               /\ op_success' = TRUE
               /\ op_final' = Final("single", << <<"claude", value[2]>> >>)
               /\ op_pc' = "finish"
               /\ UNCHANGED fbVars
          ELSE /\ stats' = stats
               /\ fb_pc = "idle"
               /\ fb_pc' = "entry"
               /\ fb_attempt' = 1
               /\ fb_log' = <<>>
               /\ fb_result' = fb_result
               /\ op_pc' = "fallback"
               /\ UNCHANGED <<op_success, op_final>>
    /\ UNCHANGED op_parallel
    /\ UNCHANGED engVars
    /\ UNCHANGED cpVars
    /\ UNCHANGED now
    /\ UNCHANGED smVars
    /\ UNCHANGED caVars
    /\ UNCHANGED restVars

\* Sequential mode, after fallback_mode returned
AnalyzeAfterFallback ==
    /\ op_pc = "fallback"
    /\ fb_pc = "done"
    /\ op_success' = fb_result[1]
    /\ op_final' = Final("single", << <<"gemini", fb_result[2]>> >>)
    /\ op_pc' = "finish"
    /\ UNCHANGED <<op_parallel, stats>>
    /\ UNCHANGED engVars
    /\ UNCHANGED fbVars
    /\ UNCHANGED cpVars
    /\ UNCHANGED now
    /\ UNCHANGED smVars
    /\ UNCHANGED caVars
    /\ UNCHANGED restVars

\* The session state after _save_interaction: add_context for the question,
\* then for the response
SaveInteraction(command, user_input, ai_response) ==
    LET user_entry == ContextEntry("user", user_input, now, command,
                                   estimate_tokens(user_input))
        user_history == Window(context_history, user_entry)
        user_meta == [session_metadata EXCEPT
                         !.updated_at = now,
                         !.total_commands = total_commands_of(session_metadata) + 1]
        entry == ContextEntry("assistant", ai_response, now, command,
                              estimate_tokens(ai_response))
        history == Window(user_history, entry)
        meta == [user_meta EXCEPT !.total_commands = @ + 1]
    IN /\ context_history' = history
       /\ session_metadata' = meta
       /\ session_files' =
            SaveSession(current_session_id, meta, project_summary, history,
                SaveSession(current_session_id, user_meta, project_summary,
                            user_history, session_files))
       /\ sm_last' = [op |-> "add", id |-> current_session_id, ok |-> TRUE,
                      after |-> "add", tag |-> ""]
       /\ UNCHANGED <<current_session_id, project_summary, pointer_file>>

\* if success: the report is printed and saved and the interaction recorded;
\* then the dashboard.  A failed operation records nothing.
AnalyzeFinish ==
    /\ op_pc = "finish"
    /\ IF op_success
       THEN SaveInteraction("analyze", PromptText, FinalText(op_final))
       ELSE UNCHANGED smVars
    /\ op_pc' = "done"
    /\ UNCHANGED <<op_parallel, op_success, op_final, stats>>
    /\ UNCHANGED engVars
    /\ UNCHANGED fbVars
    /\ UNCHANGED cpVars
    /\ UNCHANGED now
    /\ UNCHANGED caVars
    /\ UNCHANGED restVars

----------------------------------------------------------------------------
(* Result synthesizer *)

\* The orders in which a dict can hold the given keys
Orders(keys) ==
    { o \in [1..Cardinality(keys) -> keys] :
        \A i, j \in 1..Cardinality(keys) : i # j => o[i] # o[j] }

NoSynthesis == [results |-> NoResults, order |-> <<>>, report |-> NoFinal]

\* synthesize_results(results, task_description) is called with a dict that
\* holds the entries of res in the given order
Synthesize(res, order) ==
    /\ syn' = [results |-> res, order |-> order,
               report |-> synthesize_results(res, order)]
    /\ UNCHANGED <<gw, px, run, applied_changes, failed_changes, core>>
    /\ UNCHANGED now
    /\ UNCHANGED smVars
    /\ UNCHANGED caVars
    /\ UNCHANGED aiVars

----------------------------------------------------------------------------
(* Change extraction: parse_changes_from_response *)

\* Texts of a response are sequences of chunks; these chunks are white space
\* to str.strip() and \s, and these match \w+
Whitespace == {" ", "\n"}
WordChunks == {"a", "b", "python", "makefile", "X", "Y"}

RECURSIVE lstrip(_, _)
lstrip(t, chars) ==
    IF t # <<>> /\ Head(t) \in chars THEN lstrip(Tail(t), chars) ELSE t

RECURSIVE rstrip(_, _)
rstrip(t, chars) ==
    IF t # <<>> /\ t[Len(t)] \in chars
    THEN rstrip(SubSeq(t, 1, Len(t) - 1), chars)
    ELSE t

strip(t) == rstrip(lstrip(t, Whitespace), Whitespace)

\* The segments of a response: a fenced block (the text of its opening line
\* after the three backticks, and its body), a "[파일 ...]" header (its text
\* between "[파일" and "]"), and prose holding neither
Fence(line, code) == [kind |-> "fence", line |-> line, code |-> code]
Header(text) == [kind |-> "header", text |-> text]
Prose == [kind |-> "prose"]

\* How much of a text \w* takes
RECURSIVE WordPrefixLen(_)
WordPrefixLen(t) ==
    IF t # <<>> /\ Head(t) \in WordChunks THEN 1 + WordPrefixLen(Tail(t)) ELSE 0

\* Group 2 of r'```(?:(\w+):)?([^\n`]+)?\n(.*?)```': the opening line after
\* an optional "word:" prefix
file_hint(line) ==
    LET k == WordPrefixLen(line)
    IN IF k > 0 /\ Len(line) > k /\ line[k + 1] = ":"
       THEN SubSeq(line, k + 2, Len(line))
       ELSE line

\* The hints the first loop drops (line 338)
RejectedHints ==
    {<<"python">>, <<"javascript">>, <<"typescript">>, <<"java">>, <<"diff">>}

\* As exists, the disk not looked at
exists_Unchecked(file_path, disk) == TRUE

\* Path(file_path).exists(); Path("") is the working directory
exists(file_path, disk) == file_path = <<>> \/ file_path \in disk

\* One pass of the first loop (lines 334 to 351): what it appends for a fence
FenceChanges(seg, disk) ==
    LET hint == file_hint(seg.line)
        stripped == strip(hint)
        file_path == lstrip(stripped, {"/"})
    IN IF hint = <<>> \/ stripped = <<>> \/ stripped \in RejectedHints
       THEN <<>>
       ELSE IF exists(file_path, disk)
            THEN <<CodeChange(file_path, "modify", strip(seg.code))>>
            ELSE <<>>

\* The first loop over the fences of the response, in order
RECURSIVE Pattern1(_, _)
Pattern1(response, disk) ==
    IF response = <<>> THEN <<>>
    ELSE (IF Head(response).kind = "fence"
          THEN FenceChanges(Head(response), disk) ELSE <<>>)
         \o Pattern1(Tail(response), disk)

\* Group 1 of r'\[파일[:\s]*([^\]]+)\]', stripped (line 358)
HeaderPath(text) == strip(lstrip(text, {":"} \cup Whitespace))

\* Group 2 of the section pattern: the segments up to the next header
RECURSIVE Content(_)
Content(rest) ==
    IF rest = <<>> \/ Head(rest).kind = "header" THEN <<>>
    ELSE <<Head(rest)>> \o Content(Tail(rest))

\* re.search(r'```\w*\n?(.*?)```', content): the first fence of the content;
\* group 1 starts after the word characters that follow the backticks
RECURSIVE code_match(_)
code_match(content) ==
    IF content = <<>> THEN <<>>
    ELSE IF Head(content).kind = "fence" THEN <<Head(content)>>
    ELSE code_match(Tail(content))

Group1(fence) ==
    LET k == WordPrefixLen(fence.line)
        rest == SubSeq(fence.line, k + 1, Len(fence.line))
    IN IF rest = <<>> THEN fence.code ELSE rest \o <<"\n">> \o fence.code

\* "change not in [c for c in changes if c.file_path == change.file_path]":
\* dataclass equality, on every field
Known(changes, change) == \E i \in 1..Len(changes) : changes[i] = change

\* One pass of the second loop (lines 357 to 370)
SectionChanges(changes, text, content, disk) ==
    LET file_path == HeaderPath(text)
        found == code_match(content)
    IN IF found # <<>> /\ exists(file_path, disk)
       THEN LET change == CodeChange(file_path, "modify", strip(Group1(found[1])))
            IN IF Known(changes, change) THEN changes ELSE Append(changes, change)
       ELSE changes

\* The second loop over the headers of the response, in order
RECURSIVE Pattern2(_, _, _)
Pattern2(changes, response, disk) ==
    IF response = <<>> THEN changes
    ELSE IF Head(response).kind = "header"
         THEN Pattern2(SectionChanges(changes, Head(response).text,
                                      Content(Tail(response)), disk),
                       Tail(response), disk)
         ELSE Pattern2(changes, Tail(response), disk)

parse_changes_from_response(response, disk) ==
    Pattern2(Pattern1(response, disk), response, disk)

NoParse == [pc |-> "idle", disk |-> {}, response |-> <<>>, changes |-> <<>>]

\* An AI answer arrives while the working directory holds the paths of disk
Respond(response, disk) ==
    /\ px.pc = "idle"
    /\ px' = [pc |-> "answered", disk |-> disk, response |-> response,
              changes |-> <<>>]
    /\ UNCHANGED <<gw, syn, run, applied_changes, failed_changes, core>>
    /\ UNCHANGED now
    /\ UNCHANGED smVars
    /\ UNCHANGED caVars
    /\ UNCHANGED aiVars

\* parse_changes_from_response(response) is called
ParseChanges ==
    /\ px.pc = "answered"
    /\ px' = [px EXCEPT !.pc = "parsed",
                        !.changes = parse_changes_from_response(px.response, px.disk)]
    /\ UNCHANGED <<gw, syn, run, applied_changes, failed_changes, core>>
    /\ UNCHANGED now
    /\ UNCHANGED smVars
    /\ UNCHANGED caVars
    /\ UNCHANGED aiVars

----------------------------------------------------------------------------
(* Change applicator: apply_all and apply_with_confirmation *)

\* max_length=10 at both prompts
ConfirmMaxLength == 10

\* What input(prompt) does: a typed line (its characters), end of input, or
\* an interrupt
Typed(chars) == [kind |-> "line", chars |-> chars]
EndOfInput == [kind |-> "eof", chars |-> <<>>]
Interrupted == [kind |-> "interrupt", chars |-> <<>>]

\* Optional[str]
None == [none |-> TRUE, chars |-> <<>>]
Some(chars) == [none |-> FALSE, chars |-> chars]

get_user_input(in, max_length, required) ==
    IF in.kind # "line" THEN None
    ELSE LET user_input == strip(in.chars)
         IN IF required /\ user_input = <<>> THEN None
            ELSE IF Len(user_input) > max_length THEN None
            ELSE Some(user_input)

\* As lower, the letters left as typed
lower_AsTyped(chars) == chars

\* str.lower() on the letters the prompts are answered with
LowerChar(c) ==
    CASE c = "Y" -> "y" [] c = "E" -> "e" [] c = "S" -> "s"
      [] c = "N" -> "n" [] c = "Q" -> "q" [] OTHER -> c
lower(chars) == [i \in 1..Len(chars) |-> LowerChar(chars[i])]

\* As Confirmed, the case of the answer not looked at
Confirmed_AnyCase(confirm) ==
    ~confirm.none /\ lower(confirm.chars) = <<"y", "e", "s">>

\* confirm == "yes" (line 519, negated)
Confirmed(confirm) == confirm = Some(<<"y", "e", "s">>)

\* As FailedAfter, a failure not written down
FailedAfter_Dropped(failed, change, result) == failed

\* self.failed_changes after apply_change returned result for change
FailedAfter(failed, change, result) ==
    IF result[1] THEN failed ELSE Append(failed, <<change, result[2]>>)

\* self.applied_changes after apply_change returned result for change
AppliedAfter(applied, change, result) ==
    IF result[1] THEN Append(applied, change) ELSE applied

\* The files, the backup directory and the ledgers when a run starts
Snapshot ==
    [files |-> files, backups |-> backups,
     applied_changes |-> applied_changes, failed_changes |-> failed_changes]

NoRun ==
    [op |-> "none", pc |-> "idle", changes |-> <<>>, i |-> 1,
     applied |-> 0, skipped |-> 0, failed |-> 0, again |-> FALSE,
     confirm |-> EndOfInput, result |-> <<0, 0>>,
     pre |-> [files |-> [p \in Paths |-> IF p = PathAX THEN "v1" ELSE NoFile],
              backups |-> [b \in {} |-> ""],
              applied_changes |-> <<>>, failed_changes |-> <<>>]]

\* apply_all(changes) is called and asks for the one confirmation
ApplyAll(changes) ==
    /\ run.pc = "idle"
    /\ run' = [NoRun EXCEPT !.op = "apply_all", !.pc = "confirm",
                            !.changes = changes, !.pre = Snapshot]
    /\ UNCHANGED <<gw, syn, px, applied_changes, failed_changes, core>>
    /\ UNCHANGED now
    /\ UNCHANGED smVars
    /\ UNCHANGED caVars
    /\ UNCHANGED aiVars

\* The confirmation is answered (lines 514 to 523)
Confirm(in) ==
    /\ run.op = "apply_all"
    /\ run.pc = "confirm"
    /\ LET confirm == get_user_input(in, ConfirmMaxLength, TRUE)
       IN IF ~Confirmed(confirm)
          THEN run' = [run EXCEPT !.confirm = in, !.pc = "returned",
                                  !.result = <<0, Len(run.changes)>>]
          ELSE IF run.changes = <<>>
               THEN run' = [run EXCEPT !.confirm = in, !.pc = "returned",
                                       !.result = <<0, 0>>]
               ELSE run' = [run EXCEPT !.confirm = in, !.pc = "apply"]
    /\ UNCHANGED <<gw, syn, px, applied_changes, failed_changes, core>>
    /\ UNCHANGED now
    /\ UNCHANGED smVars
    /\ UNCHANGED caVars
    /\ UNCHANGED aiVars

\* apply_with_confirmation(changes) is called and shows the first change
ApplyWithConfirmation(changes) ==
    /\ run.pc = "idle"
    /\ run' = [NoRun EXCEPT !.op = "apply_with_confirmation",
                            !.pc = IF changes = <<>> THEN "returned" ELSE "prompt",
                            !.changes = changes, !.pre = Snapshot]
    /\ UNCHANGED <<gw, syn, px, applied_changes, failed_changes, core>>
    /\ UNCHANGED now
    /\ UNCHANGED smVars
    /\ UNCHANGED caVars
    /\ UNCHANGED aiVars

\* As Advance, the change after the next taken up
Advance_SkipsOne(r, applied, other) ==
    IF r.i + 1 >= Len(r.changes)
    THEN [r EXCEPT !.pc = "returned", !.again = FALSE,
                   !.result = <<applied, other>>]
    ELSE [r EXCEPT !.i = r.i + 2, !.again = FALSE,
                   !.pc = IF r.op = "apply_all" THEN "apply" ELSE "prompt"]

\* The loop moves past change i: the next change, or the return
Advance(r, applied, other) ==
    IF r.i = Len(r.changes)
    THEN [r EXCEPT !.pc = "returned", !.again = FALSE,
                   !.result = <<applied, other>>]
    ELSE [r EXCEPT !.i = r.i + 1, !.again = FALSE,
                   !.pc = IF r.op = "apply_all" THEN "apply" ELSE "prompt"]

\* The y/n/q prompt for change i is answered (lines 471 to 500)
Answer(in) ==
    /\ run.op = "apply_with_confirmation"
    /\ run.pc = "prompt"
    /\ LET response == get_user_input(in, ConfirmMaxLength, FALSE)
       IN IF response.none \/ lower(response.chars) = <<"q">>
          THEN run' = [run EXCEPT !.pc = "returned", !.again = FALSE,
                         !.result = <<run.applied,
                                      run.skipped + (Len(run.changes) - run.i)>>]
          ELSE IF lower(response.chars) = <<"y">>
          THEN run' = [run EXCEPT !.pc = "apply", !.again = FALSE]
          ELSE IF lower(response.chars) = <<"n">>
          THEN run' = Advance([run EXCEPT !.skipped = run.skipped + 1],
                              run.applied, run.skipped + 1)
          ELSE run' = [run EXCEPT !.again = TRUE]
    /\ UNCHANGED <<gw, syn, px, applied_changes, failed_changes, core>>
    /\ UNCHANGED now
    /\ UNCHANGED smVars
    /\ UNCHANGED caVars
    /\ UNCHANGED aiVars

\* self.apply_change(change) for change i of the run
RunApplyChange ==
    /\ run.pc = "apply"
    /\ ac_pc = "idle"
    /\ ApplyChangeCall(run.changes[run.i])

\* apply_change has returned: the ledgers and the counters (lines 485 to 493
\* and 526 to 533)
RecordOutcome ==
    /\ run.pc = "apply"
    /\ ac_pc = "done"
    /\ applied_changes' = AppliedAfter(applied_changes, ac_change, ac_result)
    /\ failed_changes' = FailedAfter(failed_changes, ac_change, ac_result)
    /\ LET applied == IF ac_result[1] THEN run.applied + 1 ELSE run.applied
           missed == IF ac_result[1] THEN 0 ELSE 1
       IN IF run.op = "apply_all"
          THEN run' = Advance([run EXCEPT !.applied = applied,
                                          !.failed = run.failed + missed],
                              applied, run.failed + missed)
          ELSE run' = Advance([run EXCEPT !.applied = applied,
                                          !.skipped = run.skipped + missed],
                              applied, run.skipped + missed)
    /\ ac_pc' = "idle"
    /\ UNCHANGED <<now, files, backups, ac_change, ac_pre, ac_result>>
    /\ UNCHANGED <<gw, syn, px, core>>
    /\ UNCHANGED smVars
    /\ UNCHANGED aiVars


----------------------------------------------------------------------------
(* VBGCore: startup, and the prompt of an operation *)

\* A prompt is the sequence of its parts, the header and the delimiter
\* written by their meaning.  The empty string is <<>>.
NoCore ==
    [pc |-> "idle", mode |-> "", arg |-> NoId, latest |-> NoId, starts |-> 0,
     tried |-> <<>>, returned |-> FALSE,
     command |-> "", context |-> <<>>, sent |-> <<>>]

ContextContentLimit == 500

\* len(content); the model's texts are made of matches one character long
TextLength(t) == t.words + t.cjk + t.special + t.spaces + t.other

\* {"user": ..., "assistant": "AI", "system": ...}.get(role, role); the two
\* Korean labels are written by their meaning
RoleLabel(role) ==
    CASE role = "user" -> "User"
      [] role = "assistant" -> "AI"
      [] role = "system" -> "System"
      [] OTHER -> role

\* f"\n[{role_label}{cmd_info}]\n{content}", the content cut at the limit
\* and marked when it is longer
Rendered(entry) ==
    [label |-> RoleLabel(entry.role),
     cmd_info |-> entry.command,
     content |-> entry.content,
     cut |-> TextLength(entry.content) > ContextContentLimit]

\* context_history[-5:]
LastFive(h) == IF Len(h) > 5 THEN SubSeq(h, Len(h) - 4, Len(h)) ELSE h

\* As get_context_prompt, every entry of the history rendered
get_context_prompt_All(h) ==
    IF h = <<>> THEN <<>>
    ELSE <<"[previous conversation context]">>
         \o [i \in 1..Len(h) |-> Rendered(h[i])]
         \o <<"[current request]">>

get_context_prompt(h) ==
    IF h = <<>> THEN <<>>
    ELSE <<"[previous conversation context]">>
         \o [i \in 1..Len(LastFive(h)) |-> Rendered(LastFive(h)[i])]
         \o <<"[current request]">>

\* The base prompt an operation builds
BasePrompt(command) == <<[base |-> command]>>

\* f"{context}\n\n{prompt}" when the context is not empty
get_context_enhanced_prompt(prompt, h) ==
    LET context == get_context_prompt(h)
    IN IF context # <<>> THEN context \o <<"">> \o prompt ELSE prompt

\* A call of get_context_prompt
GetContextPrompt ==
    /\ core' = [core EXCEPT !.pc = "context",
                            !.context = get_context_prompt(context_history)]
    /\ UNCHANGED <<now, gw, syn, px, run, applied_changes, failed_changes>>
    /\ UNCHANGED smVars
    /\ UNCHANGED caVars
    /\ UNCHANGED aiVars

\* An operation up to the prompt it hands to the engine
SendPrompt(command, prompt) ==
    /\ core' = [core EXCEPT !.pc = "sent", !.command = command, !.sent = prompt]
    /\ UNCHANGED <<now, gw, syn, px, run, applied_changes, failed_changes>>
    /\ UNCHANGED smVars
    /\ UNCHANGED caVars
    /\ UNCHANGED aiVars

RefactorPrompt ==
    SendPrompt("refactor",
               get_context_enhanced_prompt(BasePrompt("refactor"), context_history))

RecommendPrompt ==
    SendPrompt("recommend",
               get_context_enhanced_prompt(BasePrompt("recommend"), context_history))

\* ui_ux hands ui_prompt to the engine as it built it
UiUxPrompt == SendPrompt("ui_ux", BasePrompt("ui_ux"))

AnalyzePrompt ==
    SendPrompt("analyze",
               get_context_enhanced_prompt(BasePrompt("analyze"), context_history))

\* The in-memory fields of a SessionManager
Memory(id, meta, summary, history) ==
    [current_session_id |-> id, session_metadata |-> meta,
     project_summary |-> summary, context_history |-> history]

\* As load_session, the age of the session not looked at
load_session_AnyAge(session_id, mem) ==
    IF session_id \notin DOMAIN session_files
    THEN [ok |-> FALSE, mem |-> mem]
    ELSE LET data == session_files[session_id]
         IN IF ~data.valid
            THEN [ok |-> FALSE, mem |-> mem]
            ELSE [ok |-> TRUE,
                  mem |-> Memory(session_id, data.metadata, data.project_summary,
                                 DictsToEntries(data.context_history))]

\* load_session as a function: what it returns and the memory it leaves
load_session(session_id, mem) ==
    IF session_id \notin DOMAIN session_files
    THEN [ok |-> FALSE, mem |-> mem]
    ELSE LET data == session_files[session_id]
         IN IF ~data.valid
            THEN [ok |-> FALSE, mem |-> mem]
            ELSE [ok |-> ~Expired(created_at_of(data.metadata), now),
                  mem |-> Memory(session_id, data.metadata, data.project_summary,
                                 DictsToEntries(data.context_history))]

\* The session file written last: max(sessions, key=st_mtime).  Every call
\* that writes a session file records its id in sm_last; a load writes none.
LatestWritten ==
    IF sm_last.op \in {"create", "add", "summary", "damage"}
    THEN sm_last.id ELSE core.latest

\* A new process: VBGCore.__init__ makes a SessionManager, whose fields are
\* empty, over the session directory and the pointer file it finds
SessionManagerInit(mode, arg) ==
    /\ current_session_id' = NoId
    /\ context_history' = <<>>
    /\ project_summary' = ""
    /\ session_metadata' = EmptyMetadata
    /\ sm_last' = [op |-> "init", id |-> NoId, ok |-> TRUE,
                   after |-> sm_last.op, tag |-> ""]
    /\ core' = [NoCore EXCEPT !.pc = "init", !.mode = mode, !.arg = arg,
                              !.latest = LatestWritten,
                              !.starts = core.starts + 1]
    /\ UNCHANGED <<session_files, pointer_file>>
    /\ UNCHANGED <<now, gw, syn, px, run, applied_changes, failed_changes>>
    /\ UNCHANGED caVars
    /\ UNCHANGED aiVars

\* load_latest_session: the session the pointer file names, then the session
\* file modified last
LoadLatestSession ==
    LET mem0 == Memory(current_session_id, session_metadata, project_summary,
                       context_history)
        named == pointer_file # NoId
        first == IF named THEN load_session(pointer_file, mem0)
                 ELSE [ok |-> FALSE, mem |-> mem0]
        tried1 == IF named THEN <<pointer_file>> ELSE <<>>
        second == load_session(core.latest, first.mem)
        out == IF first.ok
               THEN [ok |-> TRUE, mem |-> first.mem, tried |-> tried1]
               ELSE IF DOMAIN session_files = {}
               THEN [ok |-> FALSE, mem |-> first.mem, tried |-> tried1]
               ELSE [ok |-> second.ok, mem |-> second.mem,
                     tried |-> Append(tried1, core.latest)]
    IN /\ current_session_id' = out.mem.current_session_id
       /\ session_metadata' = out.mem.session_metadata
       /\ project_summary' = out.mem.project_summary
       /\ context_history' = out.mem.context_history
       /\ sm_last' = [op |-> "latest", id |-> out.mem.current_session_id,
                      ok |-> out.ok, after |-> sm_last.op, tag |-> ""]
       /\ core' = [core EXCEPT !.pc = "loaded", !.tried = out.tried,
                               !.returned = out.ok]
       /\ UNCHANGED <<session_files, pointer_file>>
       /\ UNCHANGED <<now, gw, syn, px, run, applied_changes, failed_changes>>
       /\ UNCHANGED caVars
       /\ UNCHANGED aiVars

----------------------------------------------------------------------------
(* Inputs *)

ProjectTypes == {"python", "unknown"}
Summaries == {"summary"}

\* add_context's arguments: (role, content, command)
WindowInputs ==
    { <<"user", SmallText, "refactor">>,
      <<"assistant", BigText, "refactor">>,
      <<"system", HugeText, "">> }

SessionInputs ==
    { <<"user", SmallText, "refactor">> }

\* The configuration files of the fallback specification: the ceiling left
\* out, or set to a value in or out of the validated range
AttemptValues == (-1)..MaxCeiling
FallbackConfigFiles ==
    {MissingFile, UnparseableFile, ParsedFile(EmptyDict, EmptyDict, EmptyDict)}
    \cup { ParsedFile(EmptyDict, [k \in {"max_self_heal_attempts"} |-> m],
                      EmptyDict) : m \in AttemptValues }

\* The configuration files of the dispatch specification: each provider
\* left out, enabled or disabled
EnabledDicts ==
    UNION { [keys -> BOOLEAN] : keys \in SUBSET Providers }
ParallelConfigFiles ==
    {MissingFile, UnparseableFile}
    \cup { ParsedFile(e, EmptyDict, EmptyDict) : e \in EnabledDicts }

\* The configuration files of the operation specification: the execution
\* mode and the ceiling left out or set
ParallelFlags == UNION { [keys -> BOOLEAN] : keys \in SUBSET {"parallel"} }
OperationConfigFiles ==
    {MissingFile}
    \cup { ParsedFile(EmptyDict, f, x) :
             f \in {EmptyDict, [k \in {"max_self_heal_attempts"} |-> 1]},
             x \in ParallelFlags }

\* The configuration files of the switch specification: claude and gemini
\* each enabled or disabled, the execution mode left out or set
SwitchConfigFiles ==
    { ParsedFile(e, EmptyDict, x) :
        e \in [{"claude", "gemini"} -> BOOLEAN], x \in ParallelFlags }

\* The commands of the three providers
Commands == {"claude", "gemini", "antigravity"}

\* What a process can do: return codes (negative: ended by a signal), outputs
ReturnCodes == {0, 1, 2, -9}
Stdouts == {<<>>, <<"out">>, <<"out", "more">>}
Stderrs == {<<>>, <<"warn">>, <<"err", "trace">>}
ProcessOutcomes ==
    { Exit(c, o, e) : c \in ReturnCodes, o \in Stdouts, e \in Stderrs }
    \cup {TimeoutExpired}
    \cup { Raises(m) : m \in {<<"No such file or directory">>,
                                <<"codec can't decode">>} }

\* The result dicts synthesize_results is given: any providers, any pairs
ResultDicts == UNION { [keys -> RunOutcomes] : keys \in SUBSET Providers }

\* The paths the working directory can hold, the segments an answer is made
\* of, and the answers of up to MaxSegments segments
DiskPaths == {<<"a", ".py">>, <<"b", ".py">>, <<"makefile">>}
OpeningLines ==
    {<<>>, <<"python">>, <<"makefile">>, <<"a", ".py">>,
     <<"python", ":", "a", ".py">>, <<" ", "/", "b", ".py", " ">>, <<"/">>}
Segments ==
    { Fence(l, <<"X", "\n">>) : l \in OpeningLines }
    \cup {Fence(<<"a", ".py">>, <<"\n", "Y", "\n">>)}
    \cup {Header(<<":", " ", "a", ".py">>), Header(<<" ", "b", ".py", " ">>)}
    \cup {Prose}
Responses == UNION { [1..n -> Segments] : n \in 0..MaxSegments }

\* The lists of proposals a run is given
ModifyAX == CodeChange(PathAX, "modify", "v2")
ModifyBX == CodeChange(PathBX, "modify", "v2")
ModifyY == CodeChange(PathY, "modify", "v2")
CreateBX == CodeChange(PathBX, "create", "v2")
DeleteAX == CodeChange(PathAX, "delete", "")
ChangeLists ==
    {<<>>, <<ModifyAX>>, <<ModifyAX, ModifyAX>>, <<ModifyY, ModifyAX>>,
     <<DeleteAX, ModifyAX>>, <<CreateBX, ModifyBX, ModifyAX>>}

\* What the user does at the yes/no confirmation and at a y/n/q prompt
ConfirmInputs ==
    { Typed(l) : l \in {<<"y", "e", "s">>, <<" ", "y", "e", "s", " ">>,
                        <<"Y", "E", "S">>, <<"y">>, <<"n", "o">>, <<>>,
                        <<"y", "e", "s", "y", "e", "s", "y", "e", "s", "y", "e", "s">>} }
    \cup {EndOfInput, Interrupted}
AnswerInputs ==
    { Typed(l) : l \in {<<"y">>, <<"Y", " ">>, <<"n">>, <<"q">>, <<"Q">>,
                        <<>>, <<"y", "e", "s">>} }
    \cup {EndOfInput}

\* What shutil.which finds
Availabilities == [Providers -> BOOLEAN]

Times == (0..MaxTicks) \cup (ExpiryTicks..(ExpiryTicks + MaxTicks))
SessionIds == { SessionIdOf(t) : t \in Times }

\* How a process is started, and the session ids of the startup
\* specification
StartModes == {"new", "continue", "session"}
Starts == <<StartModes, StartModes, StartModes, {"continue"}>>
StartupTimes ==
    (0..MaxStartupTicks) \cup (ExpiryTicks..(ExpiryTicks + MaxStartupTicks))
StartupIds == { SessionIdOf(t) : t \in StartupTimes } \cup {NoId}

----------------------------------------------------------------------------
(* Specifications *)

Init ==
    /\ now = 0
    /\ current_session_id = NoId
    /\ context_history = <<>>
    /\ project_summary = ""
    /\ session_metadata = EmptyMetadata
    /\ session_files = [x \in {} |-> CorruptFile]
    /\ pointer_file = NoId
    /\ sm_last = [op |-> "none", id |-> NoId, ok |-> TRUE, after |-> "none",
                 tag |-> ""]
    /\ files = [p \in Paths |-> IF p = PathAX THEN "v1" ELSE NoFile]
    /\ backups = [b \in {} |-> ""]
    /\ ac_pc = "idle"
    /\ ac_change = CodeChange(PathAX, "modify", "")
    /\ ac_pre = [files |-> [p \in Paths |-> IF p = PathAX THEN "v1" ELSE NoFile],
                 backups |-> [b \in {} |-> ""]]
    /\ ac_result = <<TRUE, "">>
    /\ config_file = MissingFile
    /\ config = get_default_config
    /\ config_warned = FALSE
    /\ available = [p \in Providers |-> FALSE]
    /\ stats = ZeroStats
    /\ eng_pc = "unbuilt"
    /\ fb_pc = "idle"
    /\ fb_attempt = 1
    /\ fb_log = <<>>
    /\ fb_result = <<TRUE, "">>
    /\ cp_pc = "idle"
    /\ cp_include = FALSE
    /\ tasks = <<>>
    /\ futures = [name \in {} |-> Running]
    /\ cp_next = 1
    /\ results = NoResults
    /\ cp_timed = {}
    /\ cp_pre = ZeroStats
    /\ op_pc = "idle"
    /\ op_parallel = FALSE
    /\ op_success = FALSE
    /\ op_final = NoFinal
    /\ gw = NoCall
    /\ syn = NoSynthesis
    /\ px = NoParse
    /\ run = NoRun
    /\ applied_changes = <<>>
    /\ failed_changes = <<>>
    /\ core = NoCore

\* One session's context window: many add_context calls, the clock at rest
NextWindow ==
    \/ \E t \in ProjectTypes : CreateSession(t)
    \/ \E in \in WindowInputs :
          /\ total_commands_of(session_metadata) < MaxCommands
          /\ AddContext(in[1], in[2], in[3])
    \/ \E id \in SessionIds : LoadSession(id)

SpecWindow == Init /\ [][NextWindow]_vars

\* Sessions over time: create, resume, expire
NextSession ==
    \/ \E t \in ProjectTypes : CreateSession(t)
    \/ \E in \in SessionInputs :
          /\ total_commands_of(session_metadata) < MaxTurns
          /\ AddContext(in[1], in[2], in[3])
    \/ \E id \in SessionIds : LoadSession(id)
    \/ \E s \in Summaries : SetProjectSummary(s)
    \/ \E id \in SessionIds : DamageSessionFile(id)
    \/ (now % ExpiryTicks < MaxTicks /\ TickSmall)
    \/ TickDay

SpecSession == Init /\ [][NextSession]_vars

\* Changes applied one at a time to the project files
NextApply ==
    \/ \E c \in Changes : ApplyChangeCall(c)
    \/ \E copied \in BOOLEAN : CreateBackup(copied)
    \/ \E outcome \in {"ok", "refused", "cut"} : WriteTarget(outcome)
    \/ (now < MaxApplyTicks /\ TickSmall)

SpecApply == Init /\ [][NextApply]_vars

\* One call_parallel on an engine built from a configuration file
ParallelSteps ==
    \/ \E name \in Providers, outcome \in RunOutcomes : WorkerReturns(name, outcome)
    \/ CollectResult
    \/ CollectTimeout
    \/ ReturnResults

NextParallel ==
    \/ \E file \in ParallelConfigFiles, avail \in Availabilities :
          Construct(file, avail)
    \/ \E include_antigravity \in BOOLEAN : CallParallel(include_antigravity)
    \/ ParallelSteps

SpecParallel == Init /\ [][NextParallel]_vars

\* Every gateway call returns, and the collecting thread runs on
FairParallel ==
    /\ \A name \in Providers :
          WF_vars(\E outcome \in RunOutcomes : WorkerReturns(name, outcome))
    /\ WF_vars(CollectResult)
    /\ WF_vars(ReturnResults)

SpecParallelFair == SpecParallel /\ FairParallel

\* One analyze on a core built from a configuration file, with a new session
NextOperation ==
    \/ \E file \in OperationConfigFiles, avail \in Availabilities :
          /\ ~avail["antigravity"]
          /\ Construct(file, avail)
    \/ (eng_pc = "ready" /\ current_session_id = NoId /\ CreateSession("python"))
    \/ Analyze
    \/ (op_pc = "dispatch" /\ ParallelSteps)
    \/ AnalyzeAfterDispatch
    \/ \E outcome \in RunOutcomes : AnalyzeCallClaude(outcome)
    \/ (op_pc = "fallback" /\ FallbackEntry)
    \/ \E outcome \in RunOutcomes :
          /\ op_pc = "fallback"
          /\ Len(fb_log) <= MaxCeiling
          /\ FallbackCallGemini(outcome)
    \/ AnalyzeAfterFallback
    \/ AnalyzeFinish

SpecOperation == Init /\ [][NextOperation]_vars

\* One analyze on a core whose configuration file switches providers off
NextSwitch ==
    \/ \E file \in SwitchConfigFiles, avail \in Availabilities :
          /\ ~avail["antigravity"]
          /\ Construct(file, avail)
    \/ (eng_pc = "ready" /\ current_session_id = NoId /\ CreateSession("python"))
    \/ Analyze
    \/ (op_pc = "dispatch" /\ ParallelSteps)
    \/ AnalyzeAfterDispatch
    \/ \E outcome \in RunOutcomes : AnalyzeCallClaude(outcome)
    \/ (op_pc = "fallback" /\ FallbackEntry)
    \/ \E outcome \in RunOutcomes :
          /\ op_pc = "fallback"
          /\ Len(fb_log) <= MaxCeiling
          /\ FallbackCallGemini(outcome)
    \/ AnalyzeAfterFallback
    \/ AnalyzeFinish

SpecSwitch == Init /\ [][NextSwitch]_vars

\* The context prefix and the prompt of each operation, on every history of
\* one session
NextPrompt ==
    \/ (core.pc = "idle" /\ current_session_id = NoId /\ CreateSession("python"))
    \/ \E in \in WindowInputs :
          /\ core.pc = "idle"
          /\ current_session_id # NoId
          /\ total_commands_of(session_metadata) < MaxCommands
          /\ AddContext(in[1], in[2], in[3])
    \/ (core.pc = "idle" /\ GetContextPrompt)
    \/ (core.pc = "idle" /\ current_session_id # NoId /\ RefactorPrompt)
    \/ (core.pc = "idle" /\ current_session_id # NoId /\ RecommendPrompt)
    \/ (core.pc = "idle" /\ current_session_id # NoId /\ UiUxPrompt)
    \/ (core.pc = "idle" /\ current_session_id # NoId /\ AnalyzePrompt)

SpecPrompt == Init /\ [][NextPrompt]_vars

\* The session manager of the running process holds a session
SessionReady ==
    \/ sm_last.op \in {"create", "add", "summary", "damage"}
    \/ (sm_last.op \in {"load", "latest"} /\ sm_last.ok)

\* Processes one after another over one session directory: each starts with
\* a new session, with --continue or with --session, works on its session,
\* and ends; files are damaged and time passes in between
NextStartup ==
    \/ \E mode \in StartModes, arg \in StartupIds :
          /\ core.pc = "idle" \/ SessionReady
          /\ core.starts < Len(Starts)
          /\ mode \in Starts[core.starts + 1]
          /\ (mode = "session") = (arg # NoId)
          /\ SessionManagerInit(mode, arg)
    \/ (sm_last.op = "init" /\ core.mode = "session" /\ LoadSession(core.arg))
    \/ (sm_last.op = "init" /\ core.mode = "continue" /\ LoadLatestSession)
    \/ /\ \/ (sm_last.op = "init" /\ core.mode = "new")
          \/ (sm_last.op \in {"load", "latest"} /\ ~sm_last.ok)
       /\ CreateSession("python")
    \/ \E in \in SessionInputs :
          /\ SessionReady
          /\ context_history = <<>>
          /\ AddContext(in[1], in[2], in[3])
    \/ \E summary \in Summaries :
          /\ SessionReady
          /\ project_summary = ""
          /\ SetProjectSummary(summary)
    \/ \E id \in StartupIds :
          /\ SessionReady
          /\ DamageSessionFile(id)
    \/ (SessionReady /\ now % ExpiryTicks < MaxStartupTicks /\ TickSmall)
    \/ (SessionReady /\ TickDay)

SpecStartup == Init /\ [][NextStartup]_vars

\* One analyze in a session that holds any number of earlier turns
NextTurns ==
    \/ \E file \in OperationConfigFiles, avail \in Availabilities :
          /\ ~avail["antigravity"]
          /\ Construct(file, avail)
    \/ (eng_pc = "ready" /\ current_session_id = NoId /\ CreateSession("python"))
    \/ \E in \in SessionInputs :
          /\ eng_pc = "ready" /\ current_session_id # NoId /\ op_pc = "idle"
          /\ total_commands_of(session_metadata) < MaxCommands
          /\ AddContext(in[1], in[2], in[3])
    \/ Analyze
    \/ (op_pc = "dispatch" /\ ParallelSteps)
    \/ AnalyzeAfterDispatch
    \/ \E outcome \in RunOutcomes : AnalyzeCallClaude(outcome)
    \/ (op_pc = "fallback" /\ FallbackEntry)
    \/ \E outcome \in RunOutcomes :
          /\ op_pc = "fallback"
          /\ Len(fb_log) <= MaxCeiling
          /\ FallbackCallGemini(outcome)
    \/ AnalyzeAfterFallback
    \/ AnalyzeFinish

SpecTurns == Init /\ [][NextTurns]_vars

\* The gateway on every command and process outcome
NextGateway ==
    \E command \in Commands, proc \in ProcessOutcomes : RunCommand(command, proc)

SpecGateway == Init /\ [][NextGateway]_vars

\* The synthesizer on every result dict
NextSynth ==
    \E res \in ResultDicts : \E order \in Orders(DOMAIN res) : Synthesize(res, order)

SpecSynth == Init /\ [][NextSynth]_vars

\* The extractor on every answer and every working directory
NextParse ==
    \/ \E response \in Responses, disk \in SUBSET DiskPaths : Respond(response, disk)
    \/ ParseChanges

SpecParse == Init /\ [][NextParse]_vars

\* One run of apply_all or apply_with_confirmation while the clock moves
NextRun ==
    \/ \E changes \in ChangeLists : ApplyAll(changes)
    \/ \E in \in ConfirmInputs : Confirm(in)
    \/ \E changes \in ChangeLists : ApplyWithConfirmation(changes)
    \/ \E in \in AnswerInputs : Answer(in)
    \/ RunApplyChange
    \/ (run.pc = "apply" /\ \E copied \in BOOLEAN : CreateBackup(copied))
    \/ (run.pc = "apply" /\ \E outcome \in {"ok", "refused", "cut"} : WriteTarget(outcome))
    \/ RecordOutcome
    \/ (now < MaxApplyTicks /\ TickSmall)

SpecRun == Init /\ [][NextRun]_vars

\* One run of the fallback chain on an engine built from a configuration file
NextFallback ==
    \/ \E file \in FallbackConfigFiles, avail \in Availabilities :
          /\ ~avail["claude"] /\ ~avail["antigravity"]
          /\ Construct(file, avail)
    \/ FallbackMode
    \/ FallbackEntry
    \/ \E outcome \in RunOutcomes :
          /\ Len(fb_log) <= MaxCeiling
          /\ FallbackCallGemini(outcome)

SpecFallback == Init /\ [][NextFallback]_vars

\* Every call of the secondary provider returns, and fallback_mode runs on
FairFallback ==
    /\ WF_vars(FallbackEntry)
    /\ WF_vars(\E outcome \in RunOutcomes :
                 Len(fb_log) <= MaxCeiling /\ FallbackCallGemini(outcome))

SpecFallbackFair == SpecFallback /\ FairFallback

----------------------------------------------------------------------------
(* Claims *)

IsBackupOf(b, p) == b.stem = p.stem /\ b.suffix = p.suffix

\* C1: whenever a modify or a delete changes or removes its target, a backup
\* holding the target's bytes from before the change is already in the
\* backup directory, also when create_backup failed.
C1_BackupBeforeChange ==
    [][\A p \in Paths :
          (/\ ac_pc = "write"
           /\ ac_change.change_type \in {"modify", "delete"}
           /\ files'[p] # files[p])
          => \E b \in DOMAIN backups : IsBackupOf(b, p) /\ backups[b] = files[p]]_vars

C2_Violated ==
    IF ac_change.change_type = "create"
    THEN ac_pre.files[ac_change.file_path] # NoFile
    ELSE ac_pre.files[ac_change.file_path] = NoFile

C2_Reason ==
    IF ac_change.change_type = "create" THEN MsgExists ELSE MsgMissing

\* C2: a create of a path that exists, and a modify or delete of a path that
\* does not, returns (False, reason) at once, and every file and the backup
\* directory are as they were when apply_change was called.
C2_PreconditionRejected ==
    (ac_pc # "idle" /\ C2_Violated)
    => /\ ac_pc = "done"
       /\ ac_result = <<FALSE, C2_Reason>>
       /\ files = ac_pre.files
       /\ backups = ac_pre.backups

C2_Witness ==
    /\ ac_pc = "done"
    /\ C2_Violated
    /\ ac_change.change_type = "create"
    /\ DOMAIN backups # {}

\* C3: after every add_context the history holds at most MAX_CONTEXT_HISTORY
\* entries, and their token estimates sum to at most MAX_CONTEXT_TOKENS
\* unless the history is one entry that alone exceeds the budget.
C3_WindowBounded ==
    sm_last.op = "add"
    => /\ Len(context_history) <= MAX_CONTEXT_HISTORY
       /\ \/ SumTokens(context_history) <= MAX_CONTEXT_TOKENS
          \/ /\ Len(context_history) = 1
             /\ context_history[1].tokens > MAX_CONTEXT_TOKENS

C3_Witness ==
    /\ sm_last.op = "add"
    /\ Len(context_history) = MAX_CONTEXT_HISTORY
    /\ SumTokens(context_history) > MAX_CONTEXT_TOKENS \div 2
    /\ session_metadata.total_commands > MAX_CONTEXT_HISTORY

IsSuffix(s, t) ==
    /\ Len(s) <= Len(t)
    /\ \A i \in 1..Len(s) : s[i] = t[Len(t) - Len(s) + i]

\* C4: the history add_context leaves is a non-empty suffix of the history
\* before the call followed by the new entry.
C4_EvictsFromHead ==
    [][\A in \in WindowInputs :
          AddContext(in[1], in[2], in[3])
          => /\ context_history' # <<>>
             /\ IsSuffix(context_history',
                         Append(context_history,
                                ContextEntry(in[1], in[2], now, in[3],
                                             estimate_tokens(in[2]))))]_vars

C4_Witness ==
    /\ sm_last.op = "add"
    /\ Len(context_history) >= 2
    /\ Len(context_history) < MAX_CONTEXT_HISTORY
    /\ session_metadata.total_commands > Len(context_history)
    /\ context_history[1].tokens > 1

\* C5: a load_session that returns False leaves current_session_id,
\* session_metadata, project_summary and context_history as they were.
C5_FailedLoadKeepsState ==
    [][\A id \in SessionIds :
          (LoadSession(id) /\ ~sm_last'.ok)
          => UNCHANGED <<current_session_id, session_metadata,
                         project_summary, context_history>>]_vars

\* C6: load_session of a session file that parses returns False exactly when
\* the time since the session's created_at exceeds SESSION_EXPIRY_HOURS,
\* whatever its updated_at.
C6_ExpiryFromCreation ==
    [][\A id \in SessionIds :
          (/\ LoadSession(id)
           /\ id \in DOMAIN session_files
           /\ session_files[id].valid)
          => (sm_last'.ok <=>
                now - session_files[id].metadata.created_at
                    <= SESSION_EXPIRY_HOURS * SecondsPerHour * TicksPerSecond)]_vars

C6_Witness ==
    /\ sm_last.op = "load"
    /\ ~sm_last.ok
    /\ sm_last.id \in DOMAIN session_files
    /\ session_files[sm_last.id].valid
    /\ now - session_files[sm_last.id].metadata.created_at > ExpiryTicks
    /\ now - session_files[sm_last.id].metadata.updated_at <= ExpiryTicks
    /\ session_files[sm_last.id].metadata.total_commands > 0

C8_PointerNamesSession ==
    (sm_last.op \in {"create", "load"} /\ sm_last.ok)
    => pointer_file = sm_last.id

\* C9: the id create_session returns is the id of no session file that
\* exists when it is called.
C9_FreshIdentifier ==
    [][\A t \in ProjectTypes :
          CreateSession(t) => current_session_id' \notin DOMAIN session_files]_vars

AllFailed(log) == \A i \in 1..Len(log) : ~log[i].ok

\* C11: a fallback_mode run started at attempt 1 makes at most
\* max_self_heal_attempts calls of call_gemini, whatever the calls return and
\* whatever the configured value, and none when that value is below 1.
C11_AtMostMaxAttempts ==
    LET m == max_attempts_of(config)
    IN fb_pc # "idle"
       => /\ m >= 1 => Len(fb_log) <= m
          /\ m < 1 => Len(fb_log) = 0

C11_Witness ==
    /\ fb_pc = "done"
    /\ max_attempts_of(config) >= 4
    /\ Len(fb_log) = max_attempts_of(config)
    /\ \A i \in 1..Len(fb_log) : fb_log[i].launched

\* C12: the first call of call_gemini that succeeds is the last call of the
\* chain, it is made on an attempt no later than the ceiling, and
\* fallback_mode returns (True, that call's output).
C12_SuccessEndsChain ==
    \A i \in 1..Len(fb_log) :
        fb_log[i].ok
        => /\ i = Len(fb_log)
           /\ fb_log[i].attempt = i
           /\ i <= max_attempts_of(config)
           /\ fb_pc = "done"
           /\ fb_result = <<TRUE, fb_log[i].output>>

C12_Witness ==
    /\ fb_pc = "done"
    /\ Len(fb_log) >= 2
    /\ Len(fb_log) < max_attempts_of(config)
    /\ fb_log[Len(fb_log)].ok
    /\ stats.gemini_calls = 1

\* C13: a run in which every call of call_gemini failed returns
\* (False, "Maximum self-heal attempts exceeded").
C13_ExhaustedMessage ==
    (fb_pc = "done" /\ AllFailed(fb_log))
    => fb_result = <<FALSE, MsgExceeded>>

\* C14: every fallback_mode run returns, each call of call_gemini returning.
C14_Terminates == (fb_pc = "entry") ~> (fb_pc = "done")

C14_Witness ==
    /\ fb_pc = "done"
    /\ AllFailed(fb_log)
    /\ fb_attempt = MaxCeiling
    /\ Len(fb_log) = MaxCeiling
    /\ config_warned

\* C15: the ceiling fallback_mode reads from the loaded configuration lies
\* in 1..5.
C15_CeilingInRange ==
    fb_pc \in {"calling", "done"}
    => (max_attempts_of(config) >= 1 /\ max_attempts_of(config) <= 5)

\* The enabled flag the configuration file gives a provider, one the file
\* leaves out taking the default of get_default_config
FileEnables(p) ==
    IF p \in DOMAIN config_file.enabled THEN config_file.enabled[p] ELSE TRUE

\* C17, as amended: the keys of the result map are exactly the providers
\* whose command is on the host and whose enabled flag is not switched off,
\* a provider the configuration leaves out being enabled by default
\* (antigravity only when include_antigravity is set); a provider that is
\* disabled or unavailable has no entry.
C17_KeySet ==
    cp_pc = "returned"
    => \A p \in Providers :
          p \in DOMAIN results
          <=> /\ available[p]
              /\ FileEnables(p)
              /\ p = "antigravity" => cp_include

C17_Witness ==
    /\ cp_pc = "returned"
    /\ config_file.state = "parsed"
    /\ "claude" \notin DOMAIN config_file.enabled
    /\ "claude" \in DOMAIN results
    /\ "gemini" \in DOMAIN config_file.enabled
    /\ ~config_file.enabled["gemini"]
    /\ available["gemini"]
    /\ "gemini" \notin DOMAIN results
    /\ ~available["antigravity"]
    /\ cp_include

\* C17, as claimed: the keys of the result map are exactly the providers the
\* configuration enables and the host has; a provider that is disabled,
\* absent from the configuration or unavailable has no entry.
C17_AbsentOmitted ==
    cp_pc = "returned"
    => \A p \in Providers :
          p \in DOMAIN results
          <=> /\ available[p]
              /\ p \in DOMAIN config_file.enabled
              /\ config_file.enabled[p]
              /\ p = "antigravity" => cp_include

\* C18: the entry of each provider is its own task's pair, or (False,
\* "<name> timed out") when its own future.result timed out, whatever the
\* other tasks did; every task submitted runs to its return and has an entry
\* when call_parallel returns.
C18_FailureIsolated ==
    /\ \A p \in DOMAIN results :
          IF p \in cp_timed
          THEN results[p] = <<FALSE, MsgFutureTimedOut(p)>>
          ELSE /\ futures[p].state = "returned"
               /\ results[p] = futures[p].value
    /\ cp_pc = "returned"
       => /\ DOMAIN results = DOMAIN futures
          /\ \A p \in DOMAIN futures : futures[p].state = "returned"

C18_Witness ==
    /\ cp_pc = "returned"
    /\ cp_timed = {"claude"}
    /\ ~futures["claude"].value[1]
    /\ "gemini" \in DOMAIN results
    /\ results["gemini"] = <<TRUE, "answer">>
    /\ "antigravity" \in DOMAIN results
    /\ results["antigravity"] = <<FALSE, "exception">>

CallsOf(st, p) ==
    CASE p = "claude" -> st.claude_calls
      [] p = "gemini" -> st.gemini_calls
      [] OTHER -> st.antigravity_calls

\* C19: no worker task writes the statistics, and when call_parallel returns
\* each provider's call counter is 1 above its value at the call if the
\* provider's entry is a success, and equal to it otherwise.
C19_StatsByCollector ==
    [][/\ (\E name \in Providers, outcome \in RunOutcomes :
              WorkerReturns(name, outcome)) => stats' = stats
       /\ cp_pc' = "returned"
          => \A p \in Providers :
                CallsOf(stats', p) =
                    CallsOf(cp_pre', p)
                    + (IF p \in DOMAIN results' /\ results'[p][1] THEN 1 ELSE 0)]_vars

C19_Witness ==
    /\ cp_pc = "returned"
    /\ stats.claude_calls = 1
    /\ stats.gemini_calls = 0
    /\ "gemini" \in cp_timed
    /\ futures["gemini"].value[1]
    /\ stats.total_tokens_used > 0

\* C20: every call_parallel returns, each task's gateway call returning, and
\* when it returns every task submitted has an entry and has resolved or is
\* recorded as timed out.
C20_ReturnsComplete ==
    /\ (cp_pc \in {"collect", "shutdown"}) ~> (cp_pc = "returned")
    /\ [](cp_pc = "returned"
          => \A i \in 1..Len(tasks) :
                /\ tasks[i] \in DOMAIN results
                /\ futures[tasks[i]].state = "returned" \/ tasks[i] \in cp_timed)

C20_Witness ==
    /\ cp_pc = "returned"
    /\ Len(tasks) = 3
    /\ cp_timed = DOMAIN futures

\* C16: an operation whose call_parallel returned no success has called
\* fallback_mode by the time it ends.
C16_FallbackAfterFailedDispatch ==
    (op_pc = "done" /\ op_parallel /\ ~AnySuccess(results))
    => fb_pc # "idle"

\* C21: _run_command raises for no outcome of the process: it returns
\* (False, "Command timed out") on a timeout, (False, the exception's text)
\* when subprocess.run raises, and otherwise (returncode == 0, stdout
\* followed by stderr).
C21_GatewayNeverRaises ==
    gw.command # ""
    => /\ ~gw.result.raised
       /\ gw.proc.kind = "timeout" => gw.result.value = <<FALSE, <<MsgTimedOut>> >>
       /\ gw.proc.kind = "exception" => gw.result.value = <<FALSE, gw.proc.message>>
       /\ gw.proc.kind = "exit"
          => /\ gw.result.value[1] <=> (gw.proc.returncode = 0)
             /\ Len(gw.result.value[2]) = Len(gw.proc.stdout) + Len(gw.proc.stderr)
             /\ SubSeq(gw.result.value[2], 1, Len(gw.proc.stdout)) = gw.proc.stdout
             /\ SubSeq(gw.result.value[2], Len(gw.proc.stdout) + 1,
                       Len(gw.result.value[2])) = gw.proc.stderr

C21_Witness ==
    /\ gw.command = "gemini"
    /\ gw.proc.kind = "exit"
    /\ gw.proc.returncode < 0
    /\ gw.proc.stdout # <<>>
    /\ gw.proc.stderr # <<>>
    /\ ~gw.result.value[1]

SucceededIn(res) == { p \in DOMAIN res : res[p][1] }
PartsOf(report) == { report.parts[i] : i \in 1..Len(report.parts) }

\* C22: synthesize_results returns the all-calls-failed message when no entry
\* succeeded; the output of the one successful entry when exactly one did,
\* however many failed; and, when two or more did, a report with one
\* labelled section for each successful provider, holding its output, and
\* none for a failed provider.
C22_SynthesisCases ==
    LET ok == SucceededIn(syn.results)
    IN syn # NoSynthesis =>
       /\ ok = {} => syn.report = Final("failed", <<>>)
       /\ Cardinality(ok) = 1
          => /\ syn.report.kind = "single"
             /\ Len(syn.report.parts) = 1
             /\ \A p \in ok : syn.report.parts[1][2] = syn.results[p][2]
       /\ Cardinality(ok) >= 2
          => /\ syn.report.kind = "synthesis"
             /\ Len(syn.report.parts) = Cardinality(ok)
             /\ PartsOf(syn.report) = { <<p, syn.results[p][2]>> : p \in ok }

C22_Witness ==
    /\ syn.report.kind = "single"
    /\ Cardinality(DOMAIN syn.results) = 3
    /\ syn.order[1] # "claude"
    /\ ~syn.results[syn.order[1]][1]
    /\ ~syn.results[syn.order[2]][1]

\* C23: the report for two or more successes is the same whatever the order
\* in which the dict holds its entries.
C23_OrderIndependent ==
    syn # NoSynthesis
    => \A order \in Orders(DOMAIN syn.results) :
          synthesize_results(syn.results, order) = syn.report

FencesOf(response) ==
    { i \in 1..Len(response) : response[i].kind = "fence" }
HeadersOf(response) ==
    { i \in 1..Len(response) : response[i].kind = "header" }

\* C24: the list parse_changes_from_response returns holds at most one
\* CodeChange for a file path, whichever convention its occurrences come from.
C24_OnePerPath ==
    px.pc = "parsed"
    => \A i, j \in 1..Len(px.changes) :
          px.changes[i].file_path = px.changes[j].file_path => i = j

\* C25: every CodeChange parse_changes_from_response returns is a "modify"
\* and names a path that exists (the empty path is the working directory).
C25_OnlyExistingModify ==
    px.pc = "parsed"
    => \A i \in 1..Len(px.changes) :
          /\ px.changes[i].change_type = "modify"
          /\ px.changes[i].file_path \in px.disk \cup {<<>>}

C25_Witness ==
    /\ px.pc = "parsed"
    /\ Len(px.changes) = 1
    /\ px.changes[1].file_path = <<"makefile">>
    /\ \E i \in HeadersOf(px.response) :
          /\ HeaderPath(px.response[i].text) \notin px.disk
          /\ code_match(Content(SubSeq(px.response, i + 1, Len(px.response)))) # <<>>

\* Names a fence gives for the language of its body
LanguageNames == RejectedHints \cup {<<"makefile">>}

\* A fence whose hint is empty or only a language name
IsNoise(seg) ==
    strip(seg.line) = <<>> \/ strip(seg.line) \in LanguageNames

\* C26: a fence whose hint is empty or a bare language name yields no
\* CodeChange by the fence convention: the first loop appends nothing for it.
C26_NoiseRejected ==
    px.pc = "parsed"
    => \A i \in FencesOf(px.response) :
          IsNoise(px.response[i]) => FenceChanges(px.response[i], px.disk) = <<>>

\* What the run has added to the two ledgers
AppliedByRun ==
    SubSeq(applied_changes, Len(run.pre.applied_changes) + 1, Len(applied_changes))
FailedByRun ==
    SubSeq(failed_changes, Len(run.pre.failed_changes) + 1, Len(failed_changes))
BackupsByRun == DOMAIN backups \ DOMAIN run.pre.backups

Occurrences(seq, x) == Cardinality({ i \in 1..Len(seq) : seq[i] = x })

\* C27: when a run has returned, the backup directory holds one new backup
\* file for each modify or delete the run applied.
C27_BackupPerApplied ==
    run.pc = "returned"
    => Cardinality(BackupsByRun)
       = Cardinality({ i \in 1..Len(AppliedByRun) :
                          AppliedByRun[i].change_type \in {"modify", "delete"} })

\* The typed line is "yes" once get_user_input has stripped it
Accepted(in) == in.kind = "line" /\ strip(in.chars) = <<"y", "e", "s">>

\* C28: a confirmed apply_all attempts every change once: each change of the
\* list is in one ledger as often as it is in the list, and the returned
\* counts are the numbers of entries the run added to the ledgers and add up
\* to len(changes).
C28_AllAttempted ==
    (run.op = "apply_all" /\ run.pc = "returned" /\ Accepted(run.confirm))
    => /\ run.result[1] + run.result[2] = Len(run.changes)
       /\ run.result[1] = Len(AppliedByRun)
       /\ run.result[2] = Len(FailedByRun)
       /\ \A i \in 1..Len(run.changes) :
             Occurrences(run.changes, run.changes[i])
             = Occurrences(AppliedByRun, run.changes[i])
               + Cardinality({ j \in 1..Len(FailedByRun) :
                                 FailedByRun[j][1] = run.changes[i] })

C28_Witness ==
    /\ run.op = "apply_all"
    /\ run.pc = "returned"
    /\ run.changes = <<ModifyY, ModifyAX>>
    /\ run.result = <<1, 1>>
    /\ FailedByRun = <<<<ModifyY, MsgMissing>>>>
    /\ AppliedByRun = <<ModifyAX>>

\* C29: an apply_all whose confirmation is not "yes" returns (0, N) and leaves
\* the files, the backup directory and both ledgers as they were.
C29_DeclinedNoEffect ==
    (run.op = "apply_all" /\ run.pc # "confirm" /\ ~Accepted(run.confirm))
    => /\ run.pc = "returned"
       /\ run.result = <<0, Len(run.changes)>>
       /\ Snapshot = run.pre

C29_Witness ==
    /\ run.op = "apply_all"
    /\ run.pc = "returned"
    /\ run.confirm = Typed(<<"Y", "E", "S">>)
    /\ run.changes = <<CreateBX, ModifyBX, ModifyAX>>
    /\ run.result = <<0, 3>>
    /\ now > 0

\* C30: apply_with_confirmation returns counts that add up to len(changes),
\* whatever the answers, an abort with q included.
C30_AllAccounted ==
    (run.op = "apply_with_confirmation" /\ run.pc = "returned")
    => run.result[1] + run.result[2] = Len(run.changes)

\* C32: in call_parallel a provider whose task has resolved and is not yet
\* collected is not waiting behind a task that has not resolved: the task the
\* collecting loop stands at has resolved too.
C32_CollectedAsResolved ==
    cp_pc = "collect"
    => \A p \in DOMAIN futures :
          (futures[p].state = "returned" /\ p \notin DOMAIN results)
          => futures[tasks[cp_next]].state = "returned"

RECURSIVE IsSubsequence(_, _)
IsSubsequence(s, t) ==
    IF s = <<>> THEN TRUE
    ELSE IF t = <<>> THEN FALSE
    ELSE IF Head(s) = Head(t) THEN IsSubsequence(Tail(s), Tail(t))
    ELSE IsSubsequence(s, Tail(t))

FailedChangesByRun == [j \in 1..Len(FailedByRun) |-> FailedByRun[j][1]]

\* C33: both policies take the changes in list order: while change i is
\* prompted for or applied, each of the i - 1 changes before it has been
\* counted as applied, failed or skipped, the change apply_change works on is
\* change i, and each ledger lists changes in the order of the list.
C33_ListOrder ==
    /\ run.pc \in {"prompt", "apply"}
       => /\ run.applied + run.skipped + run.failed = run.i - 1
          /\ run.applied = Len(AppliedByRun)
          /\ run.failed + run.skipped >= Len(FailedByRun)
    /\ (run.pc = "apply" /\ ac_pc # "idle") => ac_change = run.changes[run.i]
    /\ run.op # "none"
       => /\ IsSubsequence(AppliedByRun, run.changes)
          /\ IsSubsequence(FailedChangesByRun, run.changes)

C33_Witness ==
    /\ run.op = "apply_with_confirmation"
    /\ run.pc = "returned"
    /\ run.changes = <<CreateBX, ModifyBX, ModifyAX>>
    /\ AppliedByRun = <<CreateBX, ModifyAX>>
    /\ FailedChangesByRun = <<ModifyBX>>
    /\ run.result = <<2, 1>>

\* What the typed answer to a y/n/q prompt asks for
SaysYes(in) == in.kind = "line" /\ strip(in.chars) \in {<<"y">>, <<"Y">>}
SaysNo(in) == in.kind = "line" /\ strip(in.chars) \in {<<"n">>, <<"N">>}
Aborts(in) ==
    \/ in.kind # "line"
    \/ strip(in.chars) \in {<<"q">>, <<"Q">>}
    \/ Len(strip(in.chars)) > ConfirmMaxLength

\* C36: in apply_with_confirmation answering a prompt touches neither the
\* files nor the backups nor the ledgers; apply_change is entered only by a
\* 'y' to the prompt of the same change; 'n' skips the change, 'q', end of
\* input or an over-long line returns, any other answer asks again for the
\* same change; and nothing is applied while a prompt waits or after the
\* return.
C36_OnlyAfterYes ==
    [][run.op = "apply_with_confirmation"
       => /\ \A in \in AnswerInputs :
                Answer(in)
                => /\ UNCHANGED <<files, backups, applied_changes, failed_changes, caVars>>
                   /\ SaysYes(in) <=> (run'.pc = "apply" /\ run'.i = run.i)
                   /\ SaysNo(in)
                      => /\ run'.skipped = run.skipped + 1
                         /\ run'.pc = "returned" \/ run'.i = run.i + 1
                   /\ Aborts(in) => run'.pc = "returned"
                   /\ ~(SaysYes(in) \/ SaysNo(in) \/ Aborts(in))
                      => /\ run'.pc = "prompt"
                         /\ run'.i = run.i
                         /\ run'.applied = run.applied
                         /\ run'.skipped = run.skipped
          /\ run.pc \in {"prompt", "returned"}
             => UNCHANGED <<files, backups, applied_changes, failed_changes>>
          /\ (run.pc # "apply" /\ run'.pc = "apply")
             => \E in \in AnswerInputs : SaysYes(in) /\ Answer(in)]_vars

C36_Witness ==
    /\ run.op = "apply_with_confirmation"
    /\ run.pc = "returned"
    /\ run.changes = <<CreateBX, ModifyBX, ModifyAX>>
    /\ AppliedByRun = <<CreateBX>>
    /\ FailedByRun = <<>>
    /\ run.result = <<1, 1>>
    /\ files[PathBX] = "v2"
    /\ files[PathAX] = "v1"
    /\ DOMAIN backups = {}

\* C38: a provider whose enabled flag is false has no process launched for
\* it: not as a task of call_parallel, not by call_claude on the sequential
\* path, not by call_gemini in the fallback chain.
C38_DisabledNeverLaunched ==
    /\ \A name \in DOMAIN futures : config.enabled[name]
    /\ (~op_parallel /\ op_pc \in {"fallback", "finish", "done"}
           /\ available["claude"])
       => config.enabled["claude"]
    /\ \A i \in 1..Len(fb_log) : fb_log[i].launched => config.enabled["gemini"]

\* A provider call of the operation returned a success
ProviderSucceeded ==
    IF op_parallel THEN AnySuccess(results)
    ELSE \/ stats.claude_calls > 0
         \/ \E i \in 1..Len(fb_log) : fb_log[i].ok

C37_WitnessFailed ==
    /\ op_pc = "done"
    /\ op_parallel
    /\ ~ProviderSucceeded
    /\ Len(context_history) = 3

\* C31: get_context_prompt returns the empty string exactly when the history
\* is empty; otherwise the header, one part for each of the last min(5, len)
\* entries in the order of the history, and the current-request delimiter;
\* the call changes nothing of the session.
C31_ContextPrompt ==
    [][(core.pc = "idle" /\ core'.pc = "context")
       => LET h == context_history
              out == core'.context
              m == IF Len(h) < 5 THEN Len(h) ELSE 5
          IN /\ UNCHANGED smVars
             /\ (out = <<>>) <=> (h = <<>>)
             /\ h # <<>> =>
                  /\ Len(out) = m + 2
                  /\ out[1] = "[previous conversation context]"
                  /\ out[m + 2] = "[current request]"
                  /\ \A k \in 1..m :
                       LET entry == h[Len(h) - m + k]
                       IN /\ out[1 + k].label = RoleLabel(entry.role)
                          /\ out[1 + k].cmd_info = entry.command
                          /\ out[1 + k].content = entry.content]_vars

C31_Witness ==
    /\ core.pc = "context"
    /\ Len(context_history) = 7
    /\ Len(core.context) = 7
    /\ core.context[2].label = "AI"
    /\ core.context[2].cut
    /\ core.context[6].label = "User"
    /\ ~core.context[6].cut

\* C34: the prompt an operation hands to the engine is its base prompt after
\* the session's context prefix when the history is not empty, and the base
\* prompt alone when it is empty.
C34_PromptPrefixed ==
    core.pc = "sent"
    => core.sent = IF context_history # <<>>
                   THEN get_context_prompt(context_history) \o <<"">>
                        \o BasePrompt(core.command)
                   ELSE BasePrompt(core.command)

\* C35: the session create_session makes after a rejected load has an empty
\* history, fresh metadata and the empty project summary, in memory and in
\* its file.
C35_RecoveredSessionFresh ==
    [][(sm_last.op \in {"load", "latest"} /\ sm_last'.op = "create")
       => /\ context_history' = <<>>
          /\ session_metadata'.id = current_session_id'
          /\ session_metadata'.created_at = now
          /\ session_metadata'.total_commands = 0
          /\ project_summary' = ""
          /\ session_files'[current_session_id'] =
               [valid |-> TRUE, metadata |-> session_metadata',
                project_summary |-> "", context_history |-> <<>>]]_vars

\* A session file json.load parses and whose age is within the expiry period
Loadable(id) ==
    /\ id \in DOMAIN session_files
    /\ session_files[id].valid
    /\ ~Expired(created_at_of(session_files[id].metadata), now)

\* C39: load_latest_session tries the session the pointer names, if it names
\* one, and then at most the session file modified last; it returns True
\* exactly when a candidate it tried is parseable and unexpired, and that
\* session is then the one loaded; other session files are not looked at.
C39_LatestTwoCandidates ==
    [][(sm_last.op = "init" /\ sm_last'.op = "latest")
       => LET tried == core'.tried
              returned == core'.returned
              loaded == current_session_id'
          IN /\ UNCHANGED <<session_files, pointer_file>>
             /\ Len(tried) <= 2
             /\ \/ tried = <<>> /\ pointer_file = NoId /\ DOMAIN session_files = {}
                \/ tried = <<pointer_file>> /\ pointer_file # NoId
                \/ tried = <<core.latest>> /\ pointer_file = NoId
                \/ tried = <<pointer_file, core.latest>> /\ pointer_file # NoId
             /\ Len(tried) = 2 => ~Loadable(tried[1])
             /\ returned <=> \E i \in 1..Len(tried) : Loadable(tried[i])
             /\ returned
                => /\ Loadable(loaded)
                   /\ loaded = tried[Len(tried)]
                   /\ session_metadata' = session_files[loaded].metadata
                   /\ project_summary' = session_files[loaded].project_summary
                   /\ context_history'
                      = DictsToEntries(session_files[loaded].context_history)]_vars

C39_Witness ==
    /\ sm_last.op = "latest"
    /\ core.pc = "loaded"
    /\ ~core.returned
    /\ Len(core.tried) = 2
    /\ core.tried[1] # core.tried[2]
    /\ \E id \in DOMAIN session_files : Loadable(id)

====
